---- MODULE Spec2Model ----
(***************************************************************************)
(* rsort: the comparison and key-extraction engine (compare.rs, key.rs,   *)
(* config.rs).  Records are sequences of bytes (0..255); positions are    *)
(* 0-based byte offsets as in the source, so byte i of a record r is      *)
(* r[i + 1].  Option<T> is a sequence: None is <<>>, Some(v) is <<v>>.     *)
(* Ordering is one of "Less", "Equal", "Greater".                         *)
(***************************************************************************)
EXTENDS Integers, Sequences, FiniteSets, TLC

VARIABLES config, a, b, c, key_result, ord, pc,
          record, spec, separator, overflow_checks, fields, key,
          text, parsed, num, input, records, add_trailing, written, output, debug_out,
          field_sep, arena, pushes, taken,
          args, fs_start, fs, stdin, stdout, stderr, run_result, events, next_file

cmpVars == <<config, a, b, c, key_result, ord>>
keyVars == <<record, spec, separator, fields, key>>
parseVars == <<text, parsed>>
sortVars == <<input, records, add_trailing, written, output>>
sepVars == <<field_sep>>
arenaVars == <<arena, pushes, taken>>
runVars == <<args, fs_start, fs, stdin, stdout, stderr, run_result, events, next_file>>
vars == <<config, a, b, c, key_result, ord, pc,
          record, spec, separator, overflow_checks, fields, key,
          text, parsed, num, input, records, add_trailing, written, output, debug_out,
          field_sep, arena, pushes, taken,
          args, fs_start, fs, stdin, stdout, stderr, run_result, events, next_file>>

(***************************************************************************)
(* Bounds of the model.                                                    *)
(***************************************************************************)
\* total length of the two records drawn for one comparison
MaxPairLen == 3
\* total length of the three records drawn for the comparisons of a triple
MaxTripleLen == 4
\* longest record drawn over the edge bytes
MaxLen == 2
\* longest record drawn for field splitting and key extraction
MaxKeyLen == 3
\* largest field number of a drawn key specification
MaxField == 3
\* largest in-range character position of a drawn key specification
MaxChar == 2
\* width of usize in the model: addition wraps (or panics) at 2^UsizeBits
UsizeBits == 16
\* length in bytes of the input drawn for a sort, each record counted with
\* its delimiter
MaxInputLen == 6
\* total length of the two records drawn over the bytes around the letters
MaxFoldLen == 4
\* longest record drawn for parse_leading_number
MaxNumLen == 4
\* total length of the two records drawn for a comparison of zeros
MaxZeroLen == 4
\* longest key descriptor drawn over '1', '2', ',', '.' and a letter
MaxDescLen == 7
\* longest key descriptor drawn over '+', '0', '1', ',' and '.'
MaxSignLen == 5
\* length in chars of the value drawn for the -t flag
MaxSepLen == 3
\* number of records pushed to an Arena
MaxPushes == 3
\* total number of bytes in stdin and the files
MaxRunBytes == 2

(***************************************************************************)
(* Option and Ordering.                                                    *)
(***************************************************************************)
None == <<>>

Some(v) == <<v>>

\* Option::unwrap_or
unwrap_or(o, d) == IF o = None THEN d ELSE o[1]

\* Ordering::reverse
reverse(o) == CASE o = "Less" -> "Greater"
                [] o = "Greater" -> "Less"
                [] OTHER -> o

\* Ord::cmp on two integers
cmp_int(x, y) == IF x < y THEN "Less" ELSE IF x > y THEN "Greater" ELSE "Equal"

Min(x, y) == IF x <= y THEN x ELSE y

(***************************************************************************)
(* usize arithmetic.  usize::MAX is 2^UsizeBits - 1 in the model.  An      *)
(* addition that exceeds it panics when the build checks overflow (debug   *)
(* and test profiles) and wraps when it does not (release profile).        *)
(***************************************************************************)
RECURSIVE Pow(_, _)
Pow(x, n) == IF n = 0 THEN 1 ELSE x * Pow(x, n - 1)

UsizeMax == Pow(2, UsizeBits) - 1

\* usize::saturating_sub
saturating_sub(x, y) == IF x >= y THEN x - y ELSE 0

\* `x + y` on usize: [panic, value]
usize_add(x, y, checks) ==
    IF x + y <= UsizeMax THEN [panic |-> FALSE, value |-> x + y]
    ELSE IF checks THEN [panic |-> TRUE, value |-> 0]
    ELSE [panic |-> FALSE, value |-> (x + y) % (UsizeMax + 1)]

(***************************************************************************)
(* Bytes.                                                                  *)
(***************************************************************************)
Byte == 0 .. 255

is_space(x) == x = 32 \/ x = 9

is_ascii_digit(x) == x \in 48 .. 57

is_ascii_lowercase(x) == x \in 97 .. 122

to_ascii_uppercase(x) == IF is_ascii_lowercase(x) THEN x - 32 ELSE x

\* s[from..] with a 0-based offset
SliceFrom(s, from) == SubSeq(s, from + 1, Len(s))

\* s.get(lo..hi).unwrap_or(&[]): None when lo > hi or hi > len
get_or_empty(s, lo, hi) ==
    IF lo > hi \/ hi > Len(s) THEN <<>> ELSE SubSeq(s, lo + 1, hi)

(***************************************************************************)
(* compare.rs: the transforms.                                             *)
(***************************************************************************)
\* u8's Ord as a signed byte would have it: 0x80..0xFF below 0x00..0x7F
byte_cmp_signed(x, y) ==
    cmp_int(IF x >= 128 THEN x - 256 ELSE x, IF y >= 128 THEN y - 256 ELSE y)

\* <u8 as Ord>::cmp: bytes are unsigned, 0..255
byte_cmp(x, y) == cmp_int(x, y)

\* <[u8] as Ord>::cmp: lexicographic on unsigned bytes, a proper prefix is Less
RECURSIVE slice_cmp(_, _)
slice_cmp(x, y) ==
    IF x = <<>> /\ y = <<>> THEN "Equal"
    ELSE IF x = <<>> THEN "Less"
    ELSE IF y = <<>> THEN "Greater"
    ELSE IF Head(x) # Head(y) THEN byte_cmp(Head(x), Head(y))
    ELSE slice_cmp(Tail(x), Tail(y))

\* a comparison that looks only at the first operand's length of the second
compare_bytes_raw_first_len(x, y) == slice_cmp(x, SubSeq(y, 1, Min(Len(x), Len(y))))

compare_bytes_raw(x, y) == slice_cmp(x, y)

\* a fold that also maps the Latin-1 lower-case letters 0xE0..0xFE
fold_latin1(x) == IF is_ascii_lowercase(x) \/ x \in 224 .. 254 THEN x - 32 ELSE x

fold(x) == IF is_ascii_lowercase(x) THEN to_ascii_uppercase(x) ELSE x

compare_fold_case(x, y) ==
    slice_cmp([i \in 1 .. Len(x) |-> fold(x[i])], [i \in 1 .. Len(y) |-> fold(y[i])])

\* the first loop skipping spaces only
RECURSIVE skip_blank_space_only(_, _)
skip_blank_space_only(s, idx) ==
    IF idx < Len(s) /\ s[idx + 1] = 32 THEN skip_blank_space_only(s, idx + 1) ELSE idx

\* the first loop of parse_leading_number: idx after the leading spaces and tabs
RECURSIVE skip_blank(_, _)
skip_blank(s, idx) ==
    IF idx < Len(s) /\ is_space(s[idx + 1]) THEN skip_blank(s, idx + 1) ELSE idx

\* the digits-and-dot loop: `end` when the loop breaks
RECURSIVE scan_number(_, _, _)
scan_number(s, end, has_dot) ==
    IF end >= Len(s) THEN end
    ELSE IF is_ascii_digit(s[end + 1]) THEN scan_number(s, end + 1, has_dot)
    ELSE IF s[end + 1] = 46 /\ ~has_dot THEN scan_number(s, end + 1, TRUE)
    ELSE end

\* str::parse::<f64> on a prefix made of an optional sign, digits and at most one
\* dot: [ok, neg, mant, scale], the value being (-1)^neg * mant / 10^scale.  The
\* parse fails when the prefix holds no digit.  Every decimal of the model's
\* length is far below 2^53, so distinct values stay distinct and ordered as f64.
RECURSIVE digits_value(_, _, _, _, _)
digits_value(p, i, mant, scale, seen_dot) ==
    IF i > Len(p) THEN <<mant, scale>>
    ELSE IF p[i] = 46 THEN digits_value(p, i + 1, mant, scale, TRUE)
    ELSE digits_value(p, i + 1, mant * 10 + (p[i] - 48),
                      IF seen_dot THEN scale + 1 ELSE scale, seen_dot)

parse_f64(p) ==
    LET signed == Len(p) > 0 /\ (p[1] = 45 \/ p[1] = 43)
        body == IF signed THEN Tail(p) ELSE p
        v == digits_value(body, 1, 0, 0, FALSE)
    IN  [ok |-> \E i \in 1 .. Len(body) : is_ascii_digit(body[i]),
         neg |-> signed /\ p[1] = 45,
         mant |-> v[1], scale |-> v[2]]

Zero == [neg |-> FALSE, mant |-> 0, scale |-> 0]

parse_leading_number(s0) ==
    LET idx == skip_blank(s0, 0)
    IN  IF idx >= Len(s0) THEN Zero
        ELSE LET s == SliceFrom(s0, idx)
                 e0 == IF 0 < Len(s) /\ (s[1] = 45 \/ s[1] = 43) THEN 1 ELSE 0
                 end == scan_number(s, e0, FALSE)
             IN  IF end = 0 \/ (end = 1 /\ s[1] \in {45, 43, 46}) THEN Zero
                 ELSE LET r == parse_f64(SubSeq(s, 1, end))
                      IN  IF r.ok THEN [neg |-> r.neg, mant |-> r.mant, scale |-> r.scale]
                          ELSE Zero

\* f64::total_cmp: -0.0 sorts before +0.0
f64_total_cmp(x, y) ==
    LET sx == IF x.neg THEN 0 - x.mant ELSE x.mant
        sy == IF y.neg THEN 0 - y.mant ELSE y.mant
        o == cmp_int(sx * Pow(10, y.scale), sy * Pow(10, x.scale))
    IN  IF o # "Equal" \/ x.neg = y.neg THEN o
        ELSE IF x.neg THEN "Less" ELSE "Greater"

\* f64::partial_cmp(..).unwrap_or(Equal): -0.0 and +0.0 are equal; no NaN arises
f64_cmp(x, y) ==
    LET sx == IF x.neg THEN 0 - x.mant ELSE x.mant
        sy == IF y.neg THEN 0 - y.mant ELSE y.mant
    IN  cmp_int(sx * Pow(10, y.scale), sy * Pow(10, x.scale))

compare_numeric(x, y) == f64_cmp(parse_leading_number(x), parse_leading_number(y))

maybe_reverse(o, rev) == IF rev THEN reverse(o) ELSE o

(***************************************************************************)
(* key.rs: field splitting and key extraction.  A span is <<start, end>>,  *)
(* a half-open range of 0-based byte offsets.                              *)
(***************************************************************************)
KeySpec(sf, sc, ef, ec) ==
    [start_field |-> sf, start_char |-> sc, end_field |-> ef, end_char |-> ec]

\* the Some(sep) loop pushing the last field only when it is not empty
RECURSIVE split_sep_loop_no_empty_tail(_, _, _, _, _)
split_sep_loop_no_empty_tail(rec, sep, i, start, flds) ==
    IF i >= Len(rec)
    THEN IF start < Len(rec) \/ flds = <<>> THEN Append(flds, <<start, Len(rec)>>) ELSE flds
    ELSE IF rec[i + 1] = sep
         THEN split_sep_loop_no_empty_tail(rec, sep, i + 1, i + 1, Append(flds, <<start, i>>))
         ELSE split_sep_loop_no_empty_tail(rec, sep, i + 1, start, flds)

\* the Some(sep) loop: `fields` and `start` after bytes i.. of the record
RECURSIVE split_sep_loop(_, _, _, _, _)
split_sep_loop(rec, sep, i, start, flds) ==
    IF i >= Len(rec) THEN Append(flds, <<start, Len(rec)>>)
    ELSE IF rec[i + 1] = sep
         THEN split_sep_loop(rec, sep, i + 1, i + 1, Append(flds, <<start, i>>))
         ELSE split_sep_loop(rec, sep, i + 1, start, flds)

\* the None loop without the final `fields.is_empty()` fallback
RECURSIVE split_ws_loop_no_fallback(_, _, _, _, _)
split_ws_loop_no_fallback(rec, i, in_field, start, flds) ==
    IF i >= Len(rec)
    THEN IF in_field THEN Append(flds, <<start, Len(rec)>>) ELSE flds
    ELSE IF is_space(rec[i + 1]) /\ in_field
         THEN split_ws_loop_no_fallback(rec, i + 1, FALSE, start, Append(flds, <<start, i>>))
    ELSE IF ~is_space(rec[i + 1]) /\ ~in_field
         THEN split_ws_loop_no_fallback(rec, i + 1, TRUE, i, flds)
    ELSE split_ws_loop_no_fallback(rec, i + 1, in_field, start, flds)

\* the None loop: whitespace-delimited fields
RECURSIVE split_ws_loop(_, _, _, _, _)
split_ws_loop(rec, i, in_field, start, flds) ==
    IF i >= Len(rec)
    THEN LET done == IF in_field THEN Append(flds, <<start, Len(rec)>>) ELSE flds
         IN  IF done = <<>> THEN <<(<<0, 0>>)>> ELSE done
    ELSE IF is_space(rec[i + 1]) /\ in_field
         THEN split_ws_loop(rec, i + 1, FALSE, start, Append(flds, <<start, i>>))
    ELSE IF ~is_space(rec[i + 1]) /\ ~in_field
         THEN split_ws_loop(rec, i + 1, TRUE, i, flds)
    ELSE split_ws_loop(rec, i + 1, in_field, start, flds)

split_fields_with_positions(rec, sep) ==
    IF sep # None THEN split_sep_loop(rec, sep[1], 0, 0, <<>>)
    ELSE split_ws_loop(rec, 0, FALSE, 0, <<>>)

\* extract_key: [panic, key].  fields_with_pos[k] of the source is fwp[k + 1].
extract_key(rec, ks, sep, checks) ==
    LET fwp == split_fields_with_positions(rec, sep)
        start_idx == saturating_sub(ks.start_field, 1)
    IN  IF start_idx >= Len(fwp) THEN [panic |-> FALSE, key |-> <<>>]
        ELSE
        LET last_idx == saturating_sub(Len(fwp), 1)
            end_idx == IF ks.end_field # None
                       THEN Min(saturating_sub(ks.end_field[1], 1), last_idx)
                       ELSE last_idx
            first_start == fwp[start_idx + 1][1]
            first_end == fwp[start_idx + 1][2]
            last_start == fwp[end_idx + 1][1]
            last_end == fwp[end_idx + 1][2]
            start_char_offset == saturating_sub(unwrap_or(ks.start_char, 1), 1)
            s_add == usize_add(first_start, start_char_offset, checks)
            byte_start == Min(s_add.value, first_end)
            e_add == IF ks.end_char # None
                     THEN usize_add(last_start, ks.end_char[1], checks)
                     ELSE [panic |-> FALSE, value |-> last_end]
            byte_end == Min(e_add.value, last_end)
        IN  IF s_add.panic \/ e_add.panic THEN [panic |-> TRUE, key |-> <<>>]
            ELSE [panic |-> FALSE, key |-> get_or_empty(rec, byte_start, byte_end)]

(***************************************************************************)
(* config.rs and compare.rs: the comparator.  A comparison whose key       *)
(* extraction panics has the result "Panic".                               *)
(***************************************************************************)
\* use_last_resort with the negation of unique lost
use_last_resort_lost_not(cfg) == ~cfg.stable /\ cfg.unique

\* use_last_resort that forgets -u
use_last_resort_stable_only(cfg) == ~cfg.stable

use_last_resort(cfg) == ~cfg.stable /\ ~cfg.unique

use_stable_sort(cfg) == cfg.stable \/ cfg.unique

\* compare_with_options testing -f before -n
compare_with_options_fold_first(x, y, cfg) ==
    IF cfg.fold_case THEN compare_fold_case(x, y)
    ELSE IF cfg.numeric THEN compare_numeric(x, y)
    ELSE compare_bytes_raw(x, y)

compare_with_options(x, y, cfg) ==
    IF cfg.numeric THEN compare_numeric(x, y)
    ELSE IF cfg.fold_case THEN compare_fold_case(x, y)
    ELSE compare_bytes_raw(x, y)

\* the loop over config.keys without its early return: the last unequal key wins
RECURSIVE compare_keys_last_wins(_, _, _, _, _)
compare_keys_last_wins(x, y, cfg, checks, i) ==
    IF i > Len(cfg.keys) THEN "Equal"
    ELSE LET key_a == extract_key(x, cfg.keys[i], cfg.field_separator, checks)
             key_b == extract_key(y, cfg.keys[i], cfg.field_separator, checks)
             later == compare_keys_last_wins(x, y, cfg, checks, i + 1)
         IN  IF key_a.panic \/ key_b.panic THEN "Panic"
             ELSE IF later # "Equal" THEN later
             ELSE compare_with_options(key_a.key, key_b.key, cfg)

\* the loop over config.keys skipping a key that is empty in either record
RECURSIVE compare_keys_skip_empty(_, _, _, _, _)
compare_keys_skip_empty(x, y, cfg, checks, i) ==
    IF i > Len(cfg.keys) THEN "Equal"
    ELSE LET key_a == extract_key(x, cfg.keys[i], cfg.field_separator, checks)
             key_b == extract_key(y, cfg.keys[i], cfg.field_separator, checks)
         IN  IF key_a.panic \/ key_b.panic THEN "Panic"
             ELSE LET result == IF key_a.key = <<>> \/ key_b.key = <<>> THEN "Equal"
                                ELSE compare_with_options(key_a.key, key_b.key, cfg)
                  IN  IF result # "Equal" THEN result
                      ELSE compare_keys_skip_empty(x, y, cfg, checks, i + 1)

\* the loop over config.keys, from key number i on
RECURSIVE compare_keys_from(_, _, _, _, _)
compare_keys_from(x, y, cfg, checks, i) ==
    IF i > Len(cfg.keys) THEN "Equal"
    ELSE LET key_a == extract_key(x, cfg.keys[i], cfg.field_separator, checks)
             key_b == extract_key(y, cfg.keys[i], cfg.field_separator, checks)
         IN  IF key_a.panic \/ key_b.panic THEN "Panic"
             ELSE LET result == compare_with_options(key_a.key, key_b.key, cfg)
                  IN  IF result # "Equal" THEN result
                      ELSE compare_keys_from(x, y, cfg, checks, i + 1)

compare_by_keys(x, y, cfg, checks) ==
    IF cfg.keys = <<>> THEN compare_with_options(x, y, cfg)
    ELSE compare_keys_from(x, y, cfg, checks, 1)

\* compare_records returning the last-resort ordering without maybe_reverse
compare_records_plain_last_resort(x, y, cfg, checks) ==
    LET kres == compare_by_keys(x, y, cfg, checks)
    IN  IF kres = "Panic" THEN "Panic"
        ELSE IF kres # "Equal" THEN maybe_reverse(kres, cfg.reverse)
        ELSE IF use_last_resort(cfg) THEN compare_bytes_raw(x, y)
        ELSE "Equal"

\* compare_records whose last resort goes through compare_with_options
compare_records_options_last_resort(x, y, cfg, checks) ==
    LET kres == compare_by_keys(x, y, cfg, checks)
    IN  IF kres = "Panic" THEN "Panic"
        ELSE IF kres # "Equal" THEN maybe_reverse(kres, cfg.reverse)
        ELSE IF use_last_resort(cfg)
             THEN maybe_reverse(compare_with_options(x, y, cfg), cfg.reverse)
        ELSE "Equal"

\* compare_records without the last-resort comparison
compare_records_no_last_resort(x, y, cfg, checks) ==
    LET kres == compare_by_keys(x, y, cfg, checks)
    IN  IF kres = "Panic" THEN "Panic"
        ELSE IF kres # "Equal" THEN maybe_reverse(kres, cfg.reverse)
        ELSE "Equal"

compare_records(x, y, cfg, checks) ==
    LET kres == compare_by_keys(x, y, cfg, checks)
    IN  IF kres = "Panic" THEN "Panic"
        ELSE IF kres # "Equal" THEN maybe_reverse(kres, cfg.reverse)
        ELSE IF use_last_resort(cfg)
             THEN maybe_reverse(compare_bytes_raw(x, y), cfg.reverse)
        ELSE "Equal"

(***************************************************************************)
(* The inputs the model draws.                                             *)
(***************************************************************************)
\* space, '1', 'A', 'a': a blank and separator, a digit, a letter in both cases
Alphabet == {32, 49, 65, 97}

SeqsUpTo(S, n) == UNION {[1 .. k -> S] : k \in 0 .. n}

Records(n) == SeqsUpTo(Alphabet, n)

\* -k lists: none; -k1,1; -k1.2; -k1,1 -k2,2
KeyLists ==
    {<<>>,
     <<KeySpec(1, None, Some(1), None)>>,
     <<KeySpec(1, Some(2), None, None)>>,
     <<KeySpec(1, None, Some(1), None), KeySpec(2, None, Some(2), None)>>}

Separators == {None, Some(32)}

Configs ==
    [reverse : BOOLEAN, numeric : BOOLEAN, fold_case : BOOLEAN,
     unique : BOOLEAN, stable : BOOLEAN,
     field_separator : Separators, keys : KeyLists]

\* the configurations drawn for triples of records: unique and numeric with
\* fold_case are left to Spec, and a separator is drawn only with keys
TransConfigs ==
    {cfg \in Configs :
        /\ ~cfg.unique
        /\ ~(cfg.numeric /\ cfg.fold_case)
        /\ cfg.keys = <<>> => cfg.field_separator = None
        /\ Len(cfg.keys) = 1 =>
              (cfg.keys[1].start_field = 1 /\ cfg.keys[1].start_char = None)}

\* config.record_delimiter without -z
record_delimiter == 10

DefaultConfig ==
    [reverse |-> FALSE, numeric |-> FALSE, fold_case |-> FALSE,
     unique |-> FALSE, stable |-> FALSE,
     field_separator |-> None, keys |-> <<>>]

\* 0x00, 0x7F, 0x80, 0xFF: the ends of the signed and the unsigned byte ranges
EdgeBytes == {0, 127, 128, 255}

NoOrd == [ab |-> "None", bc |-> "None", ac |-> "None"]

CmpIdle ==
    /\ config = DefaultConfig
    /\ a = <<>>
    /\ b = <<>>
    /\ c = <<>>
    /\ key_result = "None"
    /\ ord = NoOrd

KeyIdle ==
    /\ record = <<>>
    /\ spec = KeySpec(1, None, None, None)
    /\ separator = None
    /\ fields = <<>>
    /\ key = [panic |-> FALSE, key |-> <<>>]

ParseIdle ==
    /\ text = <<>>
    /\ parsed = <<>>

NumIdle == num = Zero

SortIdle ==
    /\ input = <<>>
    /\ records = <<>>
    /\ add_trailing = TRUE
    /\ written = <<>>
    /\ output = <<>>

DebugIdle == debug_out = [panic |-> FALSE, lines |-> <<>>]

\* no -t given: field_separator() is Ok(None)
SepIdle == field_sep = <<None>>

\* Arena::new(), not pushed to
ArenaIdle ==
    /\ arena = [records |-> <<>>, total_bytes |-> 0]
    /\ pushes = <<>>
    /\ taken = None

\* the command line without arguments; run() not entered
NoArgs ==
    [reverse |-> FALSE, numeric |-> FALSE, fold_case |-> FALSE, unique |-> FALSE,
     stable |-> FALSE, output |-> None, delimiter |-> None, keys |-> <<>>,
     zero_terminated |-> FALSE, debug |-> FALSE, files |-> <<>>]

RunIdle ==
    /\ args = NoArgs
    /\ fs_start = <<>>
    /\ fs = <<>>
    /\ stdin = <<>>
    /\ stdout = <<>>
    /\ stderr = <<>>
    /\ run_result = "running"
    /\ events = <<>>
    /\ next_file = 1

(***************************************************************************)
(* Spec: one call of compare_records on a drawn pair of records under a    *)
(* drawn configuration.  No key specification drawn here comes near        *)
(* usize::MAX, so no addition overflows and the build profile is held at   *)
(* release; SpecKey draws both profiles.                                   *)
(***************************************************************************)
Init ==
    /\ config \in Configs
    /\ a \in Records(MaxPairLen)
    /\ b \in Records(MaxPairLen - Len(a))
    /\ c = <<>>
    /\ key_result = "None"
    /\ ord = NoOrd
    /\ pc = "ready"
    /\ overflow_checks = FALSE
    /\ KeyIdle /\ ParseIdle /\ NumIdle /\ SortIdle /\ DebugIdle
    /\ SepIdle /\ ArenaIdle /\ RunIdle

\* compare_records(a, b, config); key_result is its local of that name
Compare ==
    /\ pc = "ready"
    /\ key_result' = compare_by_keys(a, b, config, overflow_checks)
    /\ ord' = [ord EXCEPT !.ab = compare_records(a, b, config, overflow_checks)]
    /\ pc' = "compared"
    /\ UNCHANGED <<config, a, b, c, overflow_checks>>
    /\ UNCHANGED <<keyVars, parseVars, num, sortVars, debug_out>>
    /\ UNCHANGED <<sepVars, arenaVars, runVars>>

Next == Compare

Spec == Init /\ [][Next]_vars

(***************************************************************************)
(* SpecTrans: compare_records on the three pairs of a drawn triple, as a   *)
(* sort applies it to the records of one run under one configuration.      *)
(***************************************************************************)
InitTrans ==
    /\ config \in TransConfigs
    /\ a \in Records(MaxTripleLen)
    /\ b \in Records(MaxTripleLen - Len(a))
    /\ c \in Records(MaxTripleLen - Len(a) - Len(b))
    /\ key_result = "None"
    /\ ord = NoOrd
    /\ pc = "ready"
    /\ overflow_checks = FALSE
    /\ KeyIdle /\ ParseIdle /\ NumIdle /\ SortIdle /\ DebugIdle
    /\ SepIdle /\ ArenaIdle /\ RunIdle

CompareTriple ==
    /\ pc = "ready"
    /\ ord' = [ab |-> compare_records(a, b, config, overflow_checks),
               bc |-> compare_records(b, c, config, overflow_checks),
               ac |-> compare_records(a, c, config, overflow_checks)]
    /\ pc' = "compared"
    /\ UNCHANGED <<config, a, b, c, key_result, overflow_checks>>
    /\ UNCHANGED <<keyVars, parseVars, num, sortVars, debug_out>>
    /\ UNCHANGED <<sepVars, arenaVars, runVars>>

NextTrans == CompareTriple

SpecTrans == InitTrans /\ [][NextTrans]_vars

(***************************************************************************)
(* SpecBytes: compare_records under the default configuration on every     *)
(* pair of records of at most one byte, over all 256 byte values, and on   *)
(* every pair of longer records over the edge bytes.                       *)
(***************************************************************************)
InitBytes ==
    /\ config = DefaultConfig
    /\ \/ (a \in SeqsUpTo(Byte, 1) /\ b \in SeqsUpTo(Byte, 1))
       \/ (a \in SeqsUpTo(EdgeBytes, MaxLen) /\ b \in SeqsUpTo(EdgeBytes, MaxLen))
    /\ c = <<>>
    /\ key_result = "None"
    /\ ord = NoOrd
    /\ pc = "ready"
    /\ overflow_checks \in BOOLEAN
    /\ KeyIdle /\ ParseIdle /\ NumIdle /\ SortIdle /\ DebugIdle
    /\ SepIdle /\ ArenaIdle /\ RunIdle

SpecBytes == InitBytes /\ [][Next]_vars

(***************************************************************************)
(* sort.rs and output.rs.  slice::sort_by is the stable sort: the result   *)
(* is the one ordered permutation that keeps records comparing Equal in    *)
(* their input order, computed here by insertion.  slice::sort_unstable_by *)
(* promises an ordered permutation and no more, so its result is any of    *)
(* them.                                                                   *)
(***************************************************************************)
\* the position in the ordered list `sorted` after which r is inserted so that
\* it follows every record that is not Greater than it
RECURSIVE insert_after(_, _, _, _, _)
insert_after(sorted, r, i, cfg, checks) ==
    IF i = 0 \/ compare_records(sorted[i], r, cfg, checks) # "Greater" THEN i
    ELSE insert_after(sorted, r, i - 1, cfg, checks)

\* slice::sort_by on recs[1 .. n]
RECURSIVE sort_by(_, _, _, _)
sort_by(recs, n, cfg, checks) ==
    IF n = 0 THEN <<>>
    ELSE LET sorted == sort_by(recs, n - 1, cfg, checks)
             i == insert_after(sorted, recs[n], n - 1, cfg, checks)
         IN  SubSeq(sorted, 1, i) \o <<recs[n]>> \o SubSeq(sorted, i + 1, n - 1)

\* the permutations of 1 .. n: n put at each place of each permutation of 1 .. n-1
RECURSIVE Perms(_)
Perms(n) ==
    IF n = 0 THEN {<<>>}
    ELSE {SubSeq(p, 1, k - 1) \o <<n>> \o SubSeq(p, k, n - 1) :
             p \in Perms(n - 1), k \in 1 .. n}

\* a sort that permutes without ordering
any_permutation(recs, cfg, checks) ==
    {[i \in 1 .. Len(recs) |-> recs[p[i]]] : p \in Perms(Len(recs))}

\* slice::sort_unstable_by: the ordered permutations of recs
sort_unstable_by(recs, cfg, checks) ==
    {s \in {[i \in 1 .. Len(recs) |-> recs[p[i]]] : p \in Perms(Len(recs))} :
        \A i \in 1 .. (Len(s) - 1) :
            compare_records(s[i], s[i + 1], cfg, checks) # "Greater"}

\* sort_records that always takes the unstable sort
sort_records_always_unstable(recs, cfg, checks) == sort_unstable_by(recs, cfg, checks)

\* sort_records: the values `records` can have after the call
sort_records(recs, cfg, checks) ==
    IF use_stable_sort(cfg) THEN {sort_by(recs, Len(recs), cfg, checks)}
    ELSE sort_unstable_by(recs, cfg, checks)

\* a deduplication that compares the raw bytes
compare_for_unique_raw(x, y, cfg, checks) == compare_bytes_raw(x, y)

compare_for_unique(x, y, cfg, checks) == compare_records(x, y, cfg, checks)

\* the first loop of write_unique: unique_records (here `kept`) after records
\* i.. are seen
RECURSIVE unique_loop(_, _, _, _, _, _)
unique_loop(recs, i, prev, kept, cfg, checks) ==
    IF i > Len(recs) THEN kept
    ELSE LET is_dup == IF prev = None THEN FALSE
                       ELSE compare_for_unique(prev[1], recs[i], cfg, checks) = "Equal"
         IN  IF ~is_dup
             THEN unique_loop(recs, i + 1, Some(recs[i]), Append(kept, recs[i]),
                              cfg, checks)
             ELSE unique_loop(recs, i + 1, prev, kept, cfg, checks)

\* the writing loop of write_all and write_unique: each record, then the
\* delimiter if the record is not the last or add_trailing is set
RECURSIVE write_loop(_, _, _, _)
write_loop(recs, i, delimiter, trailing) ==
    IF i > Len(recs) THEN <<>>
    ELSE recs[i]
         \o (IF i - 1 < Len(recs) - 1 \/ trailing THEN <<delimiter>> ELSE <<>>)
         \o write_loop(recs, i + 1, delimiter, trailing)

\* the unique_records of write_unique
unique_records(recs, cfg, checks) == unique_loop(recs, 1, None, <<>>, cfg, checks)

(***************************************************************************)
(* debug.rs.  A line written by debug_line is a record: the record line    *)
(* carries its bytes in `text`; an underline line is `indent` spaces       *)
(* followed by `underline` underscores; the marker line is the text        *)
(* "^ no match for key".  debug.rs splits with its own copy of             *)
(* split_fields_with_positions, the same code as the one of key.rs.        *)
(***************************************************************************)
RecordLine(bytes) == [kind |-> "record", text |-> bytes, indent |-> 0, underline |-> 0]

UnderlineLine(pos, n) == [kind |-> "underline", text |-> <<>>, indent |-> pos, underline |-> n]

NoMatchLine == [kind |-> "no match", text |-> <<>>, indent |-> 0, underline |-> 0]

Max(x, y) == IF x >= y THEN x ELSE y

\* find_key_position: [panic, pos], pos an Option
find_key_position(line, key_spec, cfg, checks) ==
    LET flds == split_fields_with_positions(line, cfg.field_separator)
        field_idx == saturating_sub(key_spec.start_field, 1)
    IN  IF field_idx >= Len(flds) THEN [panic |-> FALSE, pos |-> None]
        ELSE LET field_start == flds[field_idx + 1][1]
                 char_offset == saturating_sub(unwrap_or(key_spec.start_char, 1), 1)
                 sum == usize_add(field_start, char_offset, checks)
             IN  [panic |-> sum.panic, pos |-> Some(sum.value)]

\* the body of the loop over config.keys: [panic, line]
debug_key_line(line, key_spec, cfg, checks) ==
    LET k == extract_key(line, key_spec, cfg.field_separator, checks)
    IN  IF k.panic THEN [panic |-> TRUE, line |-> NoMatchLine]
        ELSE IF k.key = <<>> THEN [panic |-> FALSE, line |-> NoMatchLine]
        ELSE LET p == find_key_position(line, key_spec, cfg, checks)
             IN  IF p.panic THEN [panic |-> TRUE, line |-> NoMatchLine]
                 ELSE IF p.pos # None
                 THEN [panic |-> FALSE,
                       line |-> UnderlineLine(p.pos[1], Max(Len(k.key), 1))]
                 ELSE [panic |-> FALSE, line |-> UnderlineLine(0, Len(k.key))]

\* the loop over config.keys from key i on: [panic, lines]; a panic leaves the
\* lines written before it
RECURSIVE debug_keys_from(_, _, _, _, _)
debug_keys_from(line, cfg, i, lines, checks) ==
    IF i > Len(cfg.keys) THEN [panic |-> FALSE, lines |-> lines]
    ELSE LET r == debug_key_line(line, cfg.keys[i], cfg, checks)
         IN  IF r.panic THEN [panic |-> TRUE, lines |-> lines]
             ELSE debug_keys_from(line, cfg, i + 1, Append(lines, r.line), checks)

\* debug_line(writer, line, config): [panic, lines]
debug_line(line, cfg, checks) ==
    IF cfg.keys = <<>>
    THEN [panic |-> FALSE,
          lines |-> <<RecordLine(line), UnderlineLine(0, Max(Len(line), 1))>>]
    ELSE debug_keys_from(line, cfg, 1, <<RecordLine(line)>>, checks)

(***************************************************************************)
(* key.rs: KeySpec::parse.  A descriptor is a sequence of character codes; *)
(* a Result is a sequence: Err is <<>>, Ok(v) is <<v>>.                    *)
(***************************************************************************)
Err == <<>>
Ok(v) == <<v>>

is_ascii_alphabetic(ch) == ch \in 65 .. 90 \/ ch \in 97 .. 122

\* str::split(ch): the pieces between the occurrences of ch, at least one
RECURSIVE split_char(_, _, _, _)
split_char(s, ch, i, piece) ==
    IF i > Len(s) THEN <<piece>>
    ELSE IF s[i] = ch THEN <<piece>> \o split_char(s, ch, i + 1, <<>>)
    ELSE split_char(s, ch, i + 1, Append(piece, s[i]))

split(s, ch) == split_char(s, ch, 1, <<>>)

\* str::trim_end_matches(|c| c.is_ascii_alphabetic())
RECURSIVE trim_end_alphabetic(_)
trim_end_alphabetic(s) ==
    IF s # <<>> /\ is_ascii_alphabetic(s[Len(s)])
    THEN trim_end_alphabetic(SubSeq(s, 1, Len(s) - 1))
    ELSE s

\* the digit loop of usize::from_str: checked multiply and add, an error on a
\* byte that is not a digit or on a value above usize::MAX
RECURSIVE parse_digits(_, _, _)
parse_digits(s, i, acc) ==
    IF i > Len(s) THEN Ok(acc)
    ELSE IF ~is_ascii_digit(s[i]) THEN Err
    ELSE LET v == acc * 10 + (s[i] - 48)
         IN  IF v > UsizeMax THEN Err ELSE parse_digits(s, i + 1, v)

\* str::parse::<usize>(): an optional '+', then at least one digit
parse_usize(s) ==
    LET digits == IF s # <<>> /\ s[1] = 43 THEN Tail(s) ELSE s
    IN  IF digits = <<>> THEN Err ELSE parse_digits(digits, 1, 0)

\* parse_field_char without the `parts.len() > 2` check
parse_field_char_extra_dots(s0) ==
    LET s == trim_end_alphabetic(s0)
        parts == split(s, 46)
        field == parse_usize(parts[1])
    IN  IF field = Err THEN Err
        ELSE IF Len(parts) > 1
             THEN LET char_pos == parse_usize(parts[2])
                  IN  IF char_pos = Err THEN Err
                      ELSE Ok(<<field[1], Some(char_pos[1])>>)
             ELSE Ok(<<field[1], None>>)

\* Ok(<<field, char_pos>>) or Err
parse_field_char(s0) ==
    LET s == trim_end_alphabetic(s0)
        parts == split(s, 46)
    IN  IF Len(parts) > 2 THEN Err
        ELSE LET field == parse_usize(parts[1])
             IN  IF field = Err THEN Err
                 ELSE IF Len(parts) > 1
                      THEN LET char_pos == parse_usize(parts[2])
                           IN  IF char_pos = Err THEN Err
                               ELSE Ok(<<field[1], Some(char_pos[1])>>)
                      ELSE Ok(<<field[1], None>>)

\* KeySpec::parse without the `ef < start_field` check
KeySpec_parse_no_field_order(s) ==
    LET parts == split(s, 44)
    IN  IF Len(parts) > 2 THEN Err
        ELSE
        LET start == parse_field_char(parts[1])
        IN  IF start = Err THEN Err
            ELSE
            LET start_field == start[1][1]
                start_char == start[1][2]
            IN  IF start_field = 0 THEN Err
                ELSE
                LET end == IF Len(parts) > 1 THEN parse_field_char(parts[2]) ELSE Ok(<<>>)
                IN  IF end = Err THEN Err
                    ELSE
                    LET end_field == IF Len(parts) > 1 THEN Some(end[1][1]) ELSE None
                        end_char == IF Len(parts) > 1 THEN end[1][2] ELSE None
                    IN  IF end_field # None /\ end_field[1] = 0 THEN Err
                        ELSE IF start_char # None /\ start_char[1] = 0 THEN Err
                        ELSE IF end_char # None /\ end_char[1] = 0 THEN Err
                        ELSE IF /\ end_field = Some(start_field)
                                /\ start_char # None /\ end_char # None
                                /\ end_char[1] < start_char[1] THEN Err
                        ELSE Ok(KeySpec(start_field, start_char, end_field, end_char))

\* KeySpec::parse(s): Ok(KeySpec) or Err
KeySpec_parse(s) ==
    LET parts == split(s, 44)
    IN  IF Len(parts) > 2 THEN Err
        ELSE
        LET start == parse_field_char(parts[1])
        IN  IF start = Err THEN Err
            ELSE
            LET start_field == start[1][1]
                start_char == start[1][2]
            IN  IF start_field = 0 THEN Err
                ELSE
                LET end == IF Len(parts) > 1 THEN parse_field_char(parts[2]) ELSE Ok(<<>>)
                IN  IF end = Err THEN Err
                    ELSE
                    LET end_field == IF Len(parts) > 1 THEN Some(end[1][1]) ELSE None
                        end_char == IF Len(parts) > 1 THEN end[1][2] ELSE None
                    IN  IF end_field # None /\ end_field[1] = 0 THEN Err
                        ELSE IF end_field # None /\ end_field[1] < start_field THEN Err
                        ELSE IF start_char # None /\ start_char[1] = 0 THEN Err
                        ELSE IF end_char # None /\ end_char[1] = 0 THEN Err
                        ELSE IF /\ end_field = Some(start_field)
                                /\ start_char # None /\ end_char # None
                                /\ end_char[1] < start_char[1] THEN Err
                        ELSE Ok(KeySpec(start_field, start_char, end_field, end_char))

(***************************************************************************)
(* cli.rs: Args::field_separator.  A String is the sequence of its chars   *)
(* (code points); len() counts the bytes of its UTF-8 encoding.  Err is    *)
(* RsortError::InvalidDelimiter, the only error it returns.                *)
(***************************************************************************)
len_utf8(ch) == IF ch < 128 THEN 1 ELSE IF ch < 2048 THEN 2 ELSE IF ch < 65536 THEN 3 ELSE 4

RECURSIVE str_len(_)
str_len(s) == IF s = <<>> THEN 0 ELSE len_utf8(Head(s)) + str_len(Tail(s))

starts_with(s, ch) == s # <<>> /\ Head(s) = ch

\* a field_separator that takes an unknown escape for its second character
field_separator_any_escape(delim) ==
    IF delim = None THEN Ok(None)
    ELSE LET s == delim[1]
         IN  IF s = <<92, 48>> \/ s = <<0>> THEN Ok(Some(0))
             ELSE IF str_len(s) = 1 THEN Ok(Some(s[1]))
             ELSE IF starts_with(s, 92) /\ str_len(s) = 2
                  THEN IF s[2] = 116 THEN Ok(Some(9))
                       ELSE IF s[2] = 110 THEN Ok(Some(10))
                       ELSE Ok(Some(s[2]))
             ELSE Err

\* Args::field_separator on self.delimiter
field_separator(delim) ==
    IF delim = None THEN Ok(None)
    ELSE LET s == delim[1]
         IN  IF s = <<92, 48>> \/ s = <<0>> THEN Ok(Some(0))
             ELSE IF str_len(s) = 1 THEN Ok(Some(s[1]))
             ELSE IF starts_with(s, 92) /\ str_len(s) = 2
                  THEN IF s[2] = 116 THEN Ok(Some(9))
                       ELSE IF s[2] = 110 THEN Ok(Some(10))
                       ELSE IF s[2] = 92 THEN Ok(Some(92))
                       ELSE IF s[2] = 48 THEN Ok(Some(0))
                       ELSE Err
             ELSE Err

(***************************************************************************)
(* arena.rs: Arena.  The records are held in memory, so the sum of their   *)
(* lengths stays below usize::MAX and total_bytes never overflows.         *)
(***************************************************************************)
Arena_new == [records |-> <<>>, total_bytes |-> 0]

\* a push that counts records instead of bytes
push_counting_records(ar, rec) ==
    [records |-> Append(ar.records, rec), total_bytes |-> ar.total_bytes + 1]

push(ar, rec) ==
    [records |-> Append(ar.records, rec), total_bytes |-> ar.total_bytes + Len(rec)]

bytes_used(ar) == ar.total_bytes

len(ar) == Len(ar.records)

is_empty(ar) == ar.records = <<>>

into_records(ar) == ar.records

\* FromIterator for Arena: the arena `ar` after pushing recs[i], recs[i+1], ...
RECURSIVE from_iter_loop(_, _, _)
from_iter_loop(ar, recs, i) ==
    IF i > Len(recs) THEN ar ELSE from_iter_loop(push(ar, recs[i]), recs, i + 1)

from_iter(recs) == from_iter_loop(Arena_new, recs, 1)

(***************************************************************************)
(* main.rs, config.rs, input.rs, output.rs: run().  A path is a string;    *)
(* "-" names the standard streams.  A file system maps a path to what is   *)
(* there: nothing, a directory (File::open succeeds, reading fails;        *)
(* File::create fails), or a regular file with its bytes.  An operation    *)
(* that can fail returns a record whose `error` is "" on success.          *)
(***************************************************************************)
Missing == [kind |-> "missing", bytes |-> <<>>]

Directory == [kind |-> "dir", bytes |-> <<>>]

RegularFile(bytes) == [kind |-> "file", bytes |-> bytes]

\* Args::record_delimiter
Args_record_delimiter(ar) == IF ar.zero_terminated THEN 0 ELSE record_delimiter

\* a collection of the keys that leaves out the descriptors that are rejected
RECURSIVE collect_keys_skip_rejected(_, _, _)
collect_keys_skip_rejected(descs, i, acc) ==
    IF i > Len(descs) THEN Ok(acc)
    ELSE LET k == KeySpec_parse(descs[i])
         IN  collect_keys_skip_rejected(descs, i + 1,
                                        IF k = Err THEN acc ELSE Append(acc, k[1]))

\* args.keys.iter().map(KeySpec::parse).collect(): Err at the first descriptor
\* that is rejected
RECURSIVE collect_keys(_, _, _)
collect_keys(descs, i, acc) ==
    IF i > Len(descs) THEN Ok(acc)
    ELSE LET k == KeySpec_parse(descs[i])
         IN  IF k = Err THEN Err ELSE collect_keys(descs, i + 1, Append(acc, k[1]))

\* Config::from_args: [error, config]
Config_from_args(ar) ==
    LET keys == collect_keys(ar.keys, 1, <<>>)
        fsep == field_separator(ar.delimiter)
    IN  IF fsep = Err THEN [error |-> "InvalidDelimiter", config |-> None]
        ELSE IF keys = Err THEN [error |-> "InvalidKey", config |-> None]
        ELSE [error |-> "",
              config |-> [reverse |-> ar.reverse, numeric |-> ar.numeric,
                          fold_case |-> ar.fold_case, unique |-> ar.unique,
                          stable |-> ar.stable, debug |-> ar.debug,
                          record_delimiter |-> Args_record_delimiter(ar),
                          field_separator |-> fsep[1], keys |-> keys[1],
                          output_file |-> ar.output, input_files |-> ar.files]]

\* BufRead::read_until: the number of bytes taken from `bytes`, up to and
\* with the first delimiter, or all of them
RECURSIVE read_until(_, _, _)
read_until(bytes, delimiter, n) ==
    IF n >= Len(bytes) THEN Len(bytes)
    ELSE IF bytes[n + 1] = delimiter THEN n + 1
    ELSE read_until(bytes, delimiter, n + 1)

\* the loop of read_all_records over RecordReader::read_record: [records, last_had_delimiter]
RECURSIVE read_records_loop(_, _, _, _)
read_records_loop(bytes, delimiter, recs, last_had_delimiter) ==
    LET bytes_read == read_until(bytes, delimiter, 0)
    IN  IF bytes_read = 0
        THEN [records |-> recs, last_had_delimiter |-> last_had_delimiter]
        ELSE LET had == bytes[bytes_read] = delimiter
                 buffer == SubSeq(bytes, 1, IF had THEN bytes_read - 1 ELSE bytes_read)
             IN  read_records_loop(SliceFrom(bytes, bytes_read), delimiter,
                                   Append(recs, buffer), had)

\* a read_all_records that reports whether the last record had its delimiter
read_all_records_tracking(bytes, delimiter) ==
    LET r == read_records_loop(bytes, delimiter, <<>>, TRUE)
    IN  [records |-> r.records, had_trailing |-> r.last_had_delimiter]

\* read_all_records: [records, had_trailing]
read_all_records(bytes, delimiter) ==
    [records |-> read_records_loop(bytes, delimiter, <<>>, TRUE).records,
     had_trailing |-> TRUE]

\* a reading of one input that takes an input it cannot open or read for empty
read_input_skip_unreadable(fsys, in, path, delimiter) ==
    IF path = "-"
    THEN [error |-> "", opened |-> FALSE, bytes |-> in,
          read |-> read_all_records(in, delimiter)]
    ELSE [error |-> "", opened |-> fsys[path].kind # "missing", bytes |-> fsys[path].bytes,
          read |-> read_all_records(fsys[path].bytes, delimiter)]

\* the body of run()'s loop over the input files (also its stdin branch, with
\* path "-"): [error, opened, bytes, read]; `in` is what stdin still holds
read_input(fsys, in, path, delimiter) ==
    IF path = "-"
    THEN [error |-> "", opened |-> FALSE, bytes |-> in,
          read |-> read_all_records(in, delimiter)]
    ELSE IF fsys[path].kind = "missing"
    THEN [error |-> "Io", opened |-> FALSE, bytes |-> <<>>,
          read |-> read_all_records(<<>>, delimiter)]
    ELSE IF fsys[path].kind = "dir"
    THEN [error |-> "Io", opened |-> TRUE, bytes |-> <<>>,
          read |-> read_all_records(<<>>, delimiter)]
    ELSE [error |-> "", opened |-> TRUE, bytes |-> fsys[path].bytes,
          read |-> read_all_records(fsys[path].bytes, delimiter)]

\* debug_input: the lines of debug_line for every record from the i-th on
RECURSIVE debug_input(_, _, _, _)
debug_input(recs, i, cfg, checks) ==
    IF i > Len(recs) THEN <<>>
    ELSE debug_line(recs[i], cfg, checks).lines \o debug_input(recs, i + 1, cfg, checks)

\* open_output: [error, fs]; File::create leaves an empty regular file
open_output(cfg, fsys) ==
    IF cfg.output_file = Some("-") \/ cfg.output_file = None
    THEN [error |-> "", fs |-> fsys]
    ELSE LET path == cfg.output_file[1]
         IN  IF fsys[path].kind = "dir" THEN [error |-> "Io", fs |-> fsys]
             ELSE [error |-> "", fs |-> [fsys EXCEPT ![path] = RegularFile(<<>>)]]

\* the files run() reads: stdin when no file is named
input_paths(cfg) == IF cfg.input_files = <<>> THEN <<"-">> ELSE cfg.input_files

(***************************************************************************)
(* SpecKey: split_fields_with_positions and extract_key on a drawn record, *)
(* key specification, separator policy and build profile.                  *)
(***************************************************************************)
\* tab, space, ',', 'a', 'b'
KeyAlphabet == {9, 32, 44, 97, 98}

KeyRecords == SeqsUpTo(KeyAlphabet, MaxKeyLen)

KeySeparators == {None, Some(44)}

\* character positions: small ones, and usize::MAX
CharPositions == (1 .. MaxChar) \cup {UsizeMax}

OptionOf(S) == {None} \cup {Some(v) : v \in S}

\* what KeySpec::parse checks before it returns Ok (key.rs 30-84)
parse_accepts(ks) ==
    /\ ks.start_field >= 1
    /\ ks.end_field # None => (ks.end_field[1] >= 1 /\ ks.end_field[1] >= ks.start_field)
    /\ ks.start_char # None => ks.start_char[1] >= 1
    /\ ks.end_char # None => ks.end_char[1] >= 1
    /\ (ks.end_field = Some(ks.start_field) /\ ks.start_char # None /\ ks.end_char # None)
          => ks.end_char[1] >= ks.start_char[1]
    /\ ks.end_field = None => ks.end_char = None

KeySpecs ==
    {ks \in [start_field : 1 .. MaxField, start_char : OptionOf(CharPositions),
             end_field : OptionOf(1 .. MaxField), end_char : OptionOf(CharPositions)] :
        parse_accepts(ks)}

InitKey ==
    /\ CmpIdle /\ ParseIdle /\ NumIdle /\ SortIdle /\ DebugIdle
    /\ SepIdle /\ ArenaIdle /\ RunIdle
    /\ pc = "ready"
    /\ record \in KeyRecords
    /\ spec \in KeySpecs
    /\ separator \in KeySeparators
    /\ overflow_checks \in BOOLEAN
    /\ fields = <<>>
    /\ key = [panic |-> FALSE, key |-> <<>>]

Split ==
    /\ pc = "ready"
    /\ fields' = split_fields_with_positions(record, separator)
    /\ pc' = "split"
    /\ UNCHANGED <<record, spec, separator, overflow_checks, key>>
    /\ UNCHANGED <<cmpVars, parseVars, num, sortVars, debug_out>>
    /\ UNCHANGED <<sepVars, arenaVars, runVars>>

Extract ==
    /\ pc = "ready"
    /\ key' = extract_key(record, spec, separator, overflow_checks)
    /\ pc' = "extracted"
    /\ UNCHANGED <<record, spec, separator, overflow_checks, fields>>
    /\ UNCHANGED <<cmpVars, parseVars, num, sortVars, debug_out>>
    /\ UNCHANGED <<sepVars, arenaVars, runVars>>

NextKey == Split \/ Extract

SpecKey == InitKey /\ [][NextKey]_vars

(***************************************************************************)
(* SpecParse: KeySpec::parse on a drawn descriptor.                        *)
(***************************************************************************)
\* ',', '.', '1', '2', 'n'
DescChars == {44, 46, 49, 50, 110}

\* '+', ',', '.', '0', '1'
SignChars == {43, 44, 46, 48, 49}

Descriptors == SeqsUpTo(DescChars, MaxDescLen) \cup SeqsUpTo(SignChars, MaxSignLen)

InitParse ==
    /\ CmpIdle /\ KeyIdle /\ NumIdle /\ SortIdle /\ DebugIdle
    /\ SepIdle /\ ArenaIdle /\ RunIdle
    /\ overflow_checks = FALSE
    /\ pc = "ready"
    /\ text \in Descriptors
    /\ parsed = Err

Parse ==
    /\ pc = "ready"
    /\ parsed' = KeySpec_parse(text)
    /\ pc' = "parsed"
    /\ UNCHANGED <<cmpVars, keyVars, overflow_checks, text, num, sortVars, debug_out>>
    /\ UNCHANGED <<sepVars, arenaVars, runVars>>

NextParse == Parse

SpecParse == InitParse /\ [][NextParse]_vars

(***************************************************************************)
(* SpecNum: parse_leading_number on a drawn record, and compare_records    *)
(* with numeric = true on that record against the empty one and on a drawn *)
(* pair of records over the bytes that spell zeros.                        *)
(***************************************************************************)
\* tab, space, '+', '-', '.', '0', '7', 'e', 0xFF
NumAlphabet == {9, 32, 43, 45, 46, 48, 55, 101, 255}

NumRecords(n) == SeqsUpTo(NumAlphabet, n)

\* '+', '-', '.', '0', '7', 'a'
ZeroAlphabet == {43, 45, 46, 48, 55, 97}

ZeroRecords(n) == SeqsUpTo(ZeroAlphabet, n)

NumConfigs == {[DefaultConfig EXCEPT !.numeric = TRUE, !.stable = st] : st \in BOOLEAN}

InitNum ==
    /\ config \in NumConfigs
    /\ \/ (a \in NumRecords(MaxNumLen) /\ b = <<>>)
       \/ (a \in ZeroRecords(MaxZeroLen) /\ b \in ZeroRecords(MaxZeroLen - Len(a)))
    /\ c = <<>>
    /\ key_result = "None"
    /\ ord = NoOrd
    /\ pc = "ready"
    /\ overflow_checks = FALSE
    /\ KeyIdle /\ ParseIdle /\ NumIdle /\ SortIdle /\ DebugIdle
    /\ SepIdle /\ ArenaIdle /\ RunIdle

\* parse_leading_number(a), as compare_numeric calls it on its first argument
ParseNumber ==
    /\ pc = "ready"
    /\ num' = parse_leading_number(a)
    /\ pc' = "number"
    /\ UNCHANGED <<cmpVars, keyVars, overflow_checks, parseVars, sortVars, debug_out>>
    /\ UNCHANGED <<sepVars, arenaVars, runVars>>

NextNum == ParseNumber \/ Compare

SpecNum == InitNum /\ [][NextNum]_vars

(***************************************************************************)
(* SpecFold: compare_records with fold_case = true on every pair of        *)
(* records of at most one byte, over all 256 byte values, and on every     *)
(* pair of records over the bytes around the letters.                      *)
(***************************************************************************)
\* '@', 'A', 'Z', '[', '`', 'a', 'z', '{', 0xC0, 0xE0
FoldBytes == {64, 65, 90, 91, 96, 97, 122, 123, 192, 224}

FoldConfigs == {[DefaultConfig EXCEPT !.fold_case = TRUE, !.stable = st] : st \in BOOLEAN}

InitFold ==
    /\ config \in FoldConfigs
    /\ \/ (a \in SeqsUpTo(Byte, 1) /\ b \in SeqsUpTo(Byte, 1))
       \/ (a \in SeqsUpTo(FoldBytes, MaxFoldLen)
             /\ b \in SeqsUpTo(FoldBytes, MaxFoldLen - Len(a)))
    /\ c = <<>>
    /\ key_result = "None"
    /\ ord = NoOrd
    /\ pc = "ready"
    /\ overflow_checks = FALSE
    /\ KeyIdle /\ ParseIdle /\ NumIdle /\ SortIdle /\ DebugIdle
    /\ SepIdle /\ ArenaIdle /\ RunIdle

SpecFold == InitFold /\ [][Next]_vars

(***************************************************************************)
(* SpecSort: sort_records and then write_records on a drawn list of        *)
(* records under a drawn configuration, as run() calls them.               *)
(***************************************************************************)
\* space, 'A', 'a'
SortAlphabet == {32, 65, 97}

\* the lists of records read from an input of at most w bytes
RECURSIVE SortInputs(_)
SortInputs(w) ==
    IF w <= 0 THEN {<<>>}
    ELSE {<<>>} \cup
         UNION {{<<r>> \o rest : rest \in SortInputs(w - Len(r) - 1)} :
                   r \in SeqsUpTo(SortAlphabet, w - 1)}

\* no key or -k1,1, fields split at whitespace
SortConfigs ==
    {[DefaultConfig EXCEPT !.reverse = rv, !.stable = st, !.unique = un,
                           !.fold_case = fc, !.keys = ks] :
        rv \in BOOLEAN, st \in BOOLEAN, un \in BOOLEAN, fc \in BOOLEAN,
        ks \in {<<>>, <<KeySpec(1, None, Some(1), None)>>}}

InitSort ==
    /\ config \in SortConfigs
    /\ a = <<>> /\ b = <<>> /\ c = <<>>
    /\ key_result = "None"
    /\ ord = NoOrd
    /\ KeyIdle /\ ParseIdle /\ NumIdle /\ DebugIdle
    /\ SepIdle /\ ArenaIdle /\ RunIdle
    /\ overflow_checks = FALSE
    /\ pc = "ready"
    /\ input \in SortInputs(MaxInputLen)
    /\ records = input
    \* read_all_records always reports a trailing delimiter (input.rs:57)
    /\ add_trailing = TRUE
    /\ written = <<>>
    /\ output = <<>>

\* sort_records(&mut records, &config)
SortRecords ==
    /\ pc = "ready"
    /\ records' \in sort_records(records, config, overflow_checks)
    /\ pc' = "sorted"
    /\ UNCHANGED <<cmpVars, keyVars, overflow_checks, parseVars, num, debug_out>>
    /\ UNCHANGED <<input, add_trailing, written, output>>
    /\ UNCHANGED <<sepVars, arenaVars, runVars>>

\* write_records(writer, &records, &config, add_trailing)
WriteRecords ==
    /\ pc = "sorted"
    /\ written' = IF config.unique
                  THEN unique_records(records, config, overflow_checks)
                  ELSE records
    /\ output' = write_loop(written', 1, record_delimiter, add_trailing)
    /\ pc' = "written"
    /\ UNCHANGED <<cmpVars, keyVars, overflow_checks, parseVars, num, debug_out>>
    /\ UNCHANGED <<input, records, add_trailing>>
    /\ UNCHANGED <<sepVars, arenaVars, runVars>>

NextSort == SortRecords \/ WriteRecords

SpecSort == InitSort /\ [][NextSort]_vars

(***************************************************************************)
(* SpecDebug: debug_line on a drawn record under a drawn list of keys,     *)
(* separator policy and build profile.                                     *)
(***************************************************************************)
\* -kF,F
FieldKeys == {KeySpec(f, None, Some(f), None) : f \in 1 .. MaxField}

\* no key, every single key specification, and pairs of whole-field keys
DebugKeyLists ==
    {<<>>} \cup {<<k>> : k \in KeySpecs} \cup {<<k1, k2>> : k1 \in FieldKeys, k2 \in FieldKeys}

InitDebug ==
    /\ record \in KeyRecords
    /\ separator \in KeySeparators
    /\ \E ks \in DebugKeyLists :
          config = [DefaultConfig EXCEPT !.keys = ks, !.field_separator = separator]
    /\ overflow_checks \in BOOLEAN
    /\ a = <<>> /\ b = <<>> /\ c = <<>>
    /\ key_result = "None"
    /\ ord = NoOrd
    /\ spec = KeySpec(1, None, None, None)
    /\ fields = <<>>
    /\ key = [panic |-> FALSE, key |-> <<>>]
    /\ ParseIdle /\ NumIdle /\ SortIdle /\ DebugIdle
    /\ SepIdle /\ ArenaIdle /\ RunIdle
    /\ pc = "ready"

\* debug_line(writer, record, config)
DebugLine ==
    /\ pc = "ready"
    /\ debug_out' = debug_line(record, config, overflow_checks)
    /\ pc' = "debugged"
    /\ UNCHANGED <<cmpVars, keyVars, overflow_checks, parseVars, num, sortVars>>
    /\ UNCHANGED <<sepVars, arenaVars, runVars>>

NextDebug == DebugLine

SpecDebug == InitDebug /\ [][NextDebug]_vars

(***************************************************************************)
(* SpecSep: Args::field_separator on a drawn value of the -t flag.         *)
(***************************************************************************)
\* NUL, ',', '0', '\', 'n', 't', 'x', U+00E9 (two bytes in UTF-8)
SepChars == {0, 44, 48, 92, 110, 116, 120, 233}

InitSep ==
    /\ CmpIdle /\ KeyIdle /\ ParseIdle /\ NumIdle /\ SortIdle /\ DebugIdle
    /\ SepIdle /\ ArenaIdle
    /\ overflow_checks = FALSE
    /\ pc = "ready"
    /\ \E d \in OptionOf(SeqsUpTo(SepChars, MaxSepLen)) : args = [NoArgs EXCEPT !.delimiter = d]
    /\ fs_start = <<>>
    /\ fs = <<>>
    /\ stdin = <<>>
    /\ stdout = <<>>
    /\ stderr = <<>>
    /\ run_result = "running"
    /\ events = <<>>
    /\ next_file = 1

\* args.field_separator()
FieldSeparator ==
    /\ pc = "ready"
    /\ field_sep' = field_separator(args.delimiter)
    /\ pc' = "separated"
    /\ UNCHANGED <<cmpVars, keyVars, overflow_checks, parseVars, num, sortVars, debug_out>>
    /\ UNCHANGED <<arenaVars, runVars>>

NextSep == FieldSeparator

SpecSep == InitSep /\ [][NextSep]_vars

(***************************************************************************)
(* SpecArena: an Arena built by new() and push, or by from_iter, and then  *)
(* consumed by into_records.  `pushes` is the sequence of records pushed.  *)
(***************************************************************************)
\* 'a', 'b'
ArenaBytes == {97, 98}

InitArena ==
    /\ CmpIdle /\ KeyIdle /\ ParseIdle /\ NumIdle /\ SortIdle /\ DebugIdle
    /\ SepIdle /\ RunIdle
    /\ overflow_checks = FALSE
    /\ pc = "ready"
    /\ arena = Arena_new
    /\ pushes = <<>>
    /\ taken = None

\* arena.push(rec)
Push ==
    /\ pc = "ready"
    /\ Len(pushes) < MaxPushes
    /\ \E rec \in SeqsUpTo(ArenaBytes, MaxLen) :
          /\ arena' = push(arena, rec)
          /\ pushes' = Append(pushes, rec)
    /\ UNCHANGED <<pc, taken>>
    /\ UNCHANGED <<cmpVars, keyVars, overflow_checks, parseVars, num, sortVars, debug_out>>
    /\ UNCHANGED <<sepVars, runVars>>

\* iter.collect::<Arena>()
FromIter ==
    /\ pc = "ready"
    /\ pushes = <<>>
    /\ \E n \in 1 .. MaxPushes : \E recs \in [1 .. n -> SeqsUpTo(ArenaBytes, MaxLen)] :
          /\ arena' = from_iter(recs)
          /\ pushes' = recs
    /\ UNCHANGED <<pc, taken>>
    /\ UNCHANGED <<cmpVars, keyVars, overflow_checks, parseVars, num, sortVars, debug_out>>
    /\ UNCHANGED <<sepVars, runVars>>

\* arena.into_records()
IntoRecords ==
    /\ pc = "ready"
    /\ taken' = Some(into_records(arena))
    /\ pc' = "consumed"
    /\ UNCHANGED <<arena, pushes>>
    /\ UNCHANGED <<cmpVars, keyVars, overflow_checks, parseVars, num, sortVars, debug_out>>
    /\ UNCHANGED <<sepVars, runVars>>

NextArena == Push \/ FromIter \/ IntoRecords

SpecArena == InitArena /\ [][NextArena]_vars

(***************************************************************************)
(* SpecRun: run() from the parsed command line to its return, one step per *)
(* statement that reads or writes a file or a stream.  `events` lists the  *)
(* opens, reads and writes run() has done; fs_start is the file system as  *)
(* run() found it.  No key drawn here comes near usize::MAX.               *)
(***************************************************************************)
\* NUL, newline, 'a'
RunBytes == {0, 10, 97}

FilePaths == {"f"}

\* -t and -k as given: none; -t a -k 1; -t aa (rejected); -k 0 (rejected);
\* -t aa -k 0 (both rejected)
RunFlags ==
    {[delimiter |-> None, keys |-> <<>>],
     [delimiter |-> Some(<<97>>), keys |-> << <<49>> >>],
     [delimiter |-> Some(<<97, 97>>), keys |-> <<>>],
     [delimiter |-> None, keys |-> << <<48>> >>],
     [delimiter |-> Some(<<97, 97>>), keys |-> << <<49>>, <<48>> >>]}

\* the input files as named: none, stdin, the file, and the pairs of them
RunFiles ==
    {<<>>, <<"-">>, <<"f">>, <<"-", "-">>, <<"-", "f">>, <<"f", "-">>, <<"f", "f">>}

RunArgs ==
    {[NoArgs EXCEPT !.delimiter = fl.delimiter, !.keys = fl.keys, !.files = fi,
                    !.output = o, !.debug = d, !.unique = u, !.zero_terminated = z] :
        fl \in RunFlags, fi \in RunFiles,
        o \in OptionOf({"-"} \cup FilePaths), d \in BOOLEAN, u \in BOOLEAN, z \in BOOLEAN}

FileEntries(n) == {Missing, Directory} \cup {RegularFile(bs) : bs \in SeqsUpTo(RunBytes, n)}

InitRun ==
    /\ config = None
    /\ a = <<>> /\ b = <<>> /\ c = <<>>
    /\ key_result = "None"
    /\ ord = NoOrd
    /\ KeyIdle /\ ParseIdle /\ NumIdle /\ SortIdle /\ DebugIdle
    /\ SepIdle /\ ArenaIdle
    /\ overflow_checks = FALSE
    /\ pc = "start"
    /\ args \in RunArgs
    /\ stdin \in SeqsUpTo(RunBytes, MaxRunBytes)
    /\ fs_start \in [FilePaths -> FileEntries(MaxRunBytes - Len(stdin))]
    /\ fs = fs_start
    /\ stdout = <<>>
    /\ stderr = <<>>
    /\ run_result = "running"
    /\ events = <<>>
    /\ next_file = 1

Event(op, path, bytes) == [op |-> op, path |-> path, bytes |-> bytes]

\* let config = Config::from_args(&args)?
FromArgs ==
    /\ pc = "start"
    /\ LET r == Config_from_args(args)
       IN  IF r.error # ""
           THEN /\ run_result' = r.error
                /\ pc' = "failed"
                /\ UNCHANGED config
           ELSE /\ config' = r.config
                /\ pc' = "configured"
                /\ UNCHANGED run_result
    /\ UNCHANGED <<a, b, c, key_result, ord>>
    /\ UNCHANGED <<keyVars, overflow_checks, parseVars, num, sortVars, debug_out>>
    /\ UNCHANGED <<sepVars, arenaVars>>
    /\ UNCHANGED <<args, fs_start, fs, stdin, stdout, stderr, events, next_file>>

\* one input of run(): stdin, or the next path of config.input_files
ReadInput ==
    /\ pc = "configured"
    /\ LET path == input_paths(config)[next_file]
           r == read_input(fs, stdin, path, config.record_delimiter)
       IN  /\ events' = events
                  \o (IF r.opened THEN <<Event("open", path, <<>>)>> ELSE <<>>)
                  \o (IF r.error = "" THEN <<Event("read", path, r.bytes)>> ELSE <<>>)
           /\ IF r.error # ""
              THEN /\ run_result' = r.error
                   /\ pc' = "failed"
                   /\ UNCHANGED <<records, add_trailing, stdin, next_file>>
              ELSE /\ records' = records \o r.read.records
                   /\ add_trailing' = r.read.had_trailing
                   /\ stdin' = IF path = "-" THEN <<>> ELSE stdin
                   /\ next_file' = next_file + 1
                   /\ pc' = IF next_file' > Len(input_paths(config)) THEN "read" ELSE "configured"
                   /\ UNCHANGED run_result
    /\ UNCHANGED <<cmpVars, keyVars, overflow_checks, parseVars, num, debug_out>>
    /\ UNCHANGED <<input, written, output>>
    /\ UNCHANGED <<sepVars, arenaVars>>
    /\ UNCHANGED <<args, fs_start, fs, stdout, stderr>>

\* if config.debug { debug_input(&mut stderr, &records, &config)? }
DebugInput ==
    /\ pc = "read"
    /\ IF config.debug
       THEN /\ stderr' = stderr \o debug_input(records, 1, config, overflow_checks)
            /\ events' = Append(events, Event("debug", "-", <<>>))
       ELSE UNCHANGED <<stderr, events>>
    /\ pc' = "debugged"
    /\ UNCHANGED <<cmpVars, keyVars, overflow_checks, parseVars, num, sortVars, debug_out>>
    /\ UNCHANGED <<sepVars, arenaVars>>
    /\ UNCHANGED <<args, fs_start, fs, stdin, stdout, run_result, next_file>>

\* sort::sort_records(&mut records, &config)
Sort ==
    /\ pc = "debugged"
    /\ records' \in sort_records(records, config, overflow_checks)
    /\ pc' = "sorted"
    /\ UNCHANGED <<cmpVars, keyVars, overflow_checks, parseVars, num, debug_out>>
    /\ UNCHANGED <<input, add_trailing, written, output>>
    /\ UNCHANGED <<sepVars, arenaVars, runVars>>

\* let mut out = output::open_output(&config)?
OpenOutput ==
    /\ pc = "sorted"
    /\ LET r == open_output(config, fs)
       IN  IF r.error # ""
           THEN /\ run_result' = r.error
                /\ pc' = "failed"
                /\ UNCHANGED <<fs, events>>
           ELSE /\ fs' = r.fs
                /\ events' = IF config.output_file = None \/ config.output_file = Some("-")
                              THEN events
                              ELSE Append(events, Event("create", config.output_file[1], <<>>))
                /\ pc' = "opened"
                /\ UNCHANGED run_result
    /\ UNCHANGED <<cmpVars, keyVars, overflow_checks, parseVars, num, sortVars, debug_out>>
    /\ UNCHANGED <<sepVars, arenaVars>>
    /\ UNCHANGED <<args, fs_start, stdin, stdout, stderr, next_file>>

\* output::write_records(&mut out, &records, &config, had_trailing)?; Ok(())
Write ==
    /\ pc = "opened"
    /\ written' = IF config.unique
                  THEN unique_records(records, config, overflow_checks)
                  ELSE records
    /\ IF config.output_file = None \/ config.output_file = Some("-")
       THEN /\ stdout' = stdout \o write_loop(written', 1, config.record_delimiter, add_trailing)
            /\ events' = Append(events, Event("write", "-", stdout'))
            /\ UNCHANGED fs
       ELSE /\ fs' = [fs EXCEPT ![config.output_file[1]] =
                        RegularFile(write_loop(written', 1, config.record_delimiter, add_trailing))]
            /\ events' = Append(events, Event("write", config.output_file[1],
                                              fs'[config.output_file[1]].bytes))
            /\ UNCHANGED stdout
    /\ run_result' = "Ok"
    /\ pc' = "done"
    /\ UNCHANGED <<cmpVars, keyVars, overflow_checks, parseVars, num, debug_out>>
    /\ UNCHANGED <<input, records, add_trailing, output>>
    /\ UNCHANGED <<sepVars, arenaVars>>
    /\ UNCHANGED <<args, fs_start, stdin, stderr, next_file>>

NextRun == FromArgs \/ ReadInput \/ DebugInput \/ Sort \/ OpenOutput \/ Write

SpecRun == InitRun /\ [][NextRun]_vars

(***************************************************************************)
(* Properties.  The orderings they expect are stated from the bytes, not   *)
(* through the operators above.                                            *)
(***************************************************************************)
\* x sorts strictly before y in unsigned-byte lexicographic order
LexLess(x, y) ==
    \E i \in 1 .. Len(y) :
        /\ i - 1 <= Len(x)
        /\ \A j \in 1 .. (i - 1) : x[j] = y[j]
        /\ (i > Len(x) \/ x[i] < y[i])

RawOrder(x, y) == IF x = y THEN "Equal" ELSE IF LexLess(x, y) THEN "Less" ELSE "Greater"

Opposite(o) == IF o = "Less" THEN "Greater" ELSE IF o = "Greater" THEN "Less" ELSE o

Upper(x) == [i \in 1 .. Len(x) |-> IF x[i] \in 97 .. 122 THEN x[i] - 32 ELSE x[i]]

Compared == pc = "compared"

\* the byte strings the i-th key comparison of the drawn pair looks at
KeyA(i) == extract_key(a, config.keys[i], config.field_separator, overflow_checks).key

KeyB(i) == extract_key(b, config.keys[i], config.field_separator, overflow_checks).key

\* C1: with stable and unique both unset, two records whose bytes differ never
\* compare Equal, whatever reverse, numeric, fold_case, separator and keys are.
C1_LastResortTotality ==
    (Compared /\ ~config.stable /\ ~config.unique /\ a # b) => ord.ab # "Equal"

C1_Witness ==
    /\ Compared /\ ~config.stable /\ ~config.unique
    /\ a # b /\ key_result = "Equal"
    /\ config.numeric /\ config.keys # <<>>
    /\ ord.ab = "Greater"

\* C2: when the key comparison is Equal and stable or unique is set,
\* compare_records returns Equal, also for records whose bytes differ.
C2_LastResortSuppressed ==
    (Compared /\ (config.stable \/ config.unique) /\ key_result = "Equal")
        => ord.ab = "Equal"

C2_Witness ==
    /\ Compared /\ config.unique /\ ~config.stable
    /\ key_result = "Equal" /\ a # b
    /\ ord.ab = "Equal"

\* C4: the result under reverse=true is the opposite of the result under
\* reverse=false when that is not Equal, and Equal when it is Equal.
C4_ReverseInvolution ==
    (Compared /\ ~config.reverse) =>
        LET r == compare_records(a, b, [config EXCEPT !.reverse = TRUE], overflow_checks)
        IN  /\ ord.ab = "Less" => r = "Greater"
            /\ ord.ab = "Greater" => r = "Less"
            /\ ord.ab = "Equal" => r = "Equal"

C4_Witness ==
    /\ Compared /\ ~config.reverse
    /\ key_result = "Equal" /\ ord.ab = "Less"
    /\ compare_records(a, b, [config EXCEPT !.reverse = TRUE], overflow_checks) = "Greater"

\* C5: when the key comparison is Equal and last-resort is enabled, the result is
\* the raw unsigned-byte lexicographic order of the two whole records, reversed
\* iff reverse is set, whatever numeric, fold_case, keys and separator are.
C5_LastResortIsRawBytes ==
    (Compared /\ key_result = "Equal" /\ ~config.stable /\ ~config.unique) =>
        ord.ab = (IF config.reverse THEN Opposite(RawOrder(a, b)) ELSE RawOrder(a, b))

C5_Witness ==
    /\ Compared /\ key_result = "Equal" /\ ~config.stable /\ ~config.unique
    /\ config.fold_case /\ ~config.numeric /\ ~config.reverse
    /\ a = <<65>> /\ b = <<97>>
    /\ ord.ab = "Less"

\* the transform the configuration selects, applied to two byte strings
Selected(x, y) ==
    IF config.numeric THEN compare_numeric(x, y)
    ELSE IF config.fold_case THEN RawOrder(Upper(x), Upper(y))
    ELSE RawOrder(x, y)

\* C6: the whole-record comparison (no key) and the first key comparison use
\* numeric if numeric is set, else folded if fold_case is set, else raw bytes;
\* with both set numeric wins and the result is that of fold_case unset.
C6_TransformSelection ==
    Compared =>
        /\ config.keys = <<>> => key_result = Selected(a, b)
        /\ config.keys # <<>> =>
              LET first == Selected(KeyA(1), KeyB(1))
              IN  /\ first # "Equal" => key_result = first
                  /\ Len(config.keys) = 1 => key_result = first
        /\ (config.numeric /\ config.fold_case)
              => key_result = compare_by_keys(a, b, [config EXCEPT !.fold_case = FALSE],
                                              overflow_checks)

C6_Witness ==
    /\ Compared /\ config.numeric /\ config.fold_case
    /\ key_result = "Greater"
    /\ RawOrder(Upper(a), Upper(b)) = "Less"
    /\ config.keys = <<>>

\* the result of the i-th key comparison
KeyOrd(i) == compare_with_options(KeyA(i), KeyB(i), config)

\* C7: with keys configured the key comparison is the result of the first key
\* that compares non-Equal, and Equal only if every key compares Equal.
C7_FirstUnequalKeyDecides ==
    (Compared /\ config.keys # <<>>) =>
        LET n == Len(config.keys)
            r == [i \in 1 .. n |-> KeyOrd(i)]
        IN  \/ key_result = "Equal" /\ \A i \in 1 .. n : r[i] = "Equal"
            \/ \E i \in 1 .. n :
                  /\ r[i] # "Equal"
                  /\ key_result = r[i]
                  /\ \A j \in 1 .. (i - 1) : r[j] = "Equal"

C7_Witness ==
    /\ Compared /\ Len(config.keys) = 2
    /\ KeyOrd(1) = "Less" /\ KeyOrd(2) = "Greater"
    /\ key_result = "Less"

\* C3: for a fixed configuration compare_records is transitive: if neither
\* compare(a,b) nor compare(b,c) is Greater then compare(a,c) is not Greater, and
\* it is Less if one of the two is Less.
C3_Transitive ==
    (Compared /\ ord.ab # "Greater" /\ ord.bc # "Greater") =>
        /\ ord.ac # "Greater"
        /\ (ord.ab = "Less" \/ ord.bc = "Less") => ord.ac = "Less"

C3_Witness ==
    /\ Compared /\ config.stable /\ config.keys # <<>>
    /\ a # b /\ ord.ab = "Equal"
    /\ ord.bc = "Less" /\ ord.ac = "Less"

\* C8: under the default configuration a one-byte record x is Less than a
\* one-byte record y whenever x < y as values in 0..255, and every comparison is
\* the unsigned-byte lexicographic order, a proper prefix before its extensions.
C8_UnsignedByteOrder ==
    (Compared /\ config = DefaultConfig) =>
        /\ (Len(a) = 1 /\ Len(b) = 1 /\ a[1] < b[1]) => ord.ab = "Less"
        /\ (Len(a) < Len(b) /\ a = SubSeq(b, 1, Len(a))) => ord.ab = "Less"
        /\ ord.ab = RawOrder(a, b)

C8_Witness ==
    /\ Compared /\ config = DefaultConfig
    /\ a = <<127>> /\ b = <<128>>
    /\ ord.ab = "Less"

\* C9: extract_key returns a key for every record, accepted key specification
\* and separator policy; the key is empty when the start field lies beyond the
\* last field, and a start character offset at or beyond the length of the start
\* field clamps to the field's end, so a key that ends in that field is empty.
C9_ExtractNeverFails ==
    pc = "extracted" =>
        LET F == split_fields_with_positions(record, separator)
            sf == spec.start_field
        IN  /\ ~key.panic
            /\ sf > Len(F) => key.key = <<>>
            /\ ( /\ sf <= Len(F)
                 /\ spec.start_char # None
                 /\ spec.start_char[1] - 1 >= F[sf][2] - F[sf][1]
                 /\ (sf = Len(F) \/ spec.end_field = Some(sf)) )
               => key.key = <<>>

\* C10: with a separator byte that occurs N times in the record,
\* split_fields_with_positions returns N + 1 spans, none holding the separator;
\* the first starts at 0, the last ends at the record's end, and each separator
\* lies between one span's end and the next span's start.
C10_SeparatorSplit ==
    (pc = "split" /\ separator # None) =>
        LET sep == separator[1]
            N == Cardinality({i \in 1 .. Len(record) : record[i] = sep})
        IN  /\ Len(fields) = N + 1
            /\ \A k \in 1 .. Len(fields) :
                  /\ fields[k][1] <= fields[k][2]
                  /\ fields[k][2] <= Len(record)
                  /\ \A i \in (fields[k][1] + 1) .. fields[k][2] : record[i] # sep
            /\ fields[1][1] = 0
            /\ fields[Len(fields)][2] = Len(record)
            /\ \A k \in 1 .. (Len(fields) - 1) :
                  /\ record[fields[k][2] + 1] = sep
                  /\ fields[k + 1][1] = fields[k][2] + 1

C10_Witness ==
    /\ pc = "split" /\ separator = Some(44)
    /\ record = <<44, 97, 44>>
    /\ fields = << <<0, 0>>, <<1, 2>>, <<3, 3>> >>

\* C11: with no separator, split_fields_with_positions returns exactly the
\* maximal runs of bytes that are neither space nor tab, from left to right;
\* leading and trailing whitespace give no field; an empty or all-whitespace
\* record gives the single span [0, 0), so the result is never empty.
C11_WhitespaceSplit ==
    (pc = "split" /\ separator = None) =>
        LET Blank(i) == record[i] \in {9, 32}
            Runs == {sp \in (0 .. Len(record)) \X (0 .. Len(record)) :
                        /\ sp[1] < sp[2]
                        /\ \A i \in (sp[1] + 1) .. sp[2] : ~Blank(i)
                        /\ (sp[1] = 0 \/ Blank(sp[1]))
                        /\ (sp[2] = Len(record) \/ Blank(sp[2] + 1))}
        IN  /\ fields # <<>>
            /\ Runs = {} => fields = << <<0, 0>> >>
            /\ Runs # {} =>
                  /\ {fields[k] : k \in 1 .. Len(fields)} = Runs
                  /\ \A k \in 1 .. (Len(fields) - 1) : fields[k][2] < fields[k + 1][1]

C11_Witness ==
    /\ pc = "split" /\ separator = None
    /\ record = <<9, 32>>
    /\ fields = << <<0, 0>> >>

(***************************************************************************)
(* Key descriptors, read from their characters.                            *)
(***************************************************************************)
IsLetter(ch) == ch \in (65 .. 90) \cup (97 .. 122)

\* the sides of a descriptor with at most one comma
DescSides(t) ==
    LET commas == {i \in 1 .. Len(t) : t[i] = 44}
    IN  IF commas = {} THEN <<t>>
        ELSE LET k == CHOOSE i \in commas : TRUE
             IN  <<SubSeq(t, 1, k - 1), SubSeq(t, k + 1, Len(t))>>

\* a side without its trailing letters
StripLetters(side) ==
    LET n == CHOOSE n \in 0 .. Len(side) :
                 /\ \A i \in (n + 1) .. Len(side) : IsLetter(side[i])
                 /\ (n = 0 \/ ~IsLetter(side[n]))
    IN  SubSeq(side, 1, n)

Dots(st) == {i \in 1 .. Len(st) : st[i] = 46}

\* the field portion, and the char portion if there is a dot, of a stripped
\* side with at most one dot
FieldPortion(st) ==
    IF Dots(st) = {} THEN st ELSE SubSeq(st, 1, (CHOOSE i \in Dots(st) : TRUE) - 1)

HasCharPortion(st) == Dots(st) # {}

CharPortion(st) == SubSeq(st, (CHOOSE i \in Dots(st) : TRUE) + 1, Len(st))

Unsigned(p) == IF p # <<>> /\ p[1] = 43 THEN Tail(p) ELSE p

\* p is a decimal integer (digits, possibly after one '+') that is at least 1
IsPositiveInteger(p) ==
    /\ Unsigned(p) # <<>>
    /\ \A i \in 1 .. Len(Unsigned(p)) : Unsigned(p)[i] \in 48 .. 57
    /\ \E i \in 1 .. Len(Unsigned(p)) : Unsigned(p)[i] # 48

RECURSIVE DigitsValue(_)
DigitsValue(d) ==
    IF d = <<>> THEN 0 ELSE DigitsValue(SubSeq(d, 1, Len(d) - 1)) * 10 + (d[Len(d)] - 48)

DecimalValue(p) == DigitsValue(Unsigned(p))

SideWellFormed(side) ==
    LET st == StripLetters(side)
    IN  /\ Cardinality(Dots(st)) <= 1
        /\ IsPositiveInteger(FieldPortion(st))
        /\ HasCharPortion(st) => IsPositiveInteger(CharPortion(st))

\* the descriptor is one the key grammar rules out
Malformed(t) ==
    \/ Cardinality({i \in 1 .. Len(t) : t[i] = 44}) > 1
    \/ /\ Cardinality({i \in 1 .. Len(t) : t[i] = 44}) <= 1
       /\ LET sides == DescSides(t)
          IN  \/ \E k \in 1 .. Len(sides) : ~SideWellFormed(sides[k])
              \/ /\ Len(sides) = 2
                 /\ \A k \in 1 .. 2 : SideWellFormed(sides[k])
                 /\ LET s1 == StripLetters(sides[1])
                        s2 == StripLetters(sides[2])
                        f1 == DecimalValue(FieldPortion(s1))
                        f2 == DecimalValue(FieldPortion(s2))
                    IN  \/ f2 < f1
                        \/ /\ f2 = f1
                           /\ HasCharPortion(s1) /\ HasCharPortion(s2)
                           /\ DecimalValue(CharPortion(s2)) < DecimalValue(CharPortion(s1))

\* C12: KeySpec::parse returns an error, and no KeySpec, for every descriptor
\* with more than one comma, or with a field or char portion (after stripping
\* a side's trailing letters) that is not a decimal integer of at least 1 (an
\* empty portion, 0, more than one dot in a side), or with an end field below
\* the start field, or with an end char below the start char when both sides
\* name the same field.
C12_ParseRejects ==
    (pc = "parsed" /\ Malformed(text)) => parsed = Err

\* "1.2,1.1"
C12_Witness ==
    /\ pc = "parsed"
    /\ text = <<49, 46, 50, 44, 49, 46, 49>>
    /\ parsed = Err

(***************************************************************************)
(* Numeric prefixes, read from the bytes.                                  *)
(***************************************************************************)
\* the first n bytes of s are blanks, then at most one sign, then digits with
\* at most one '.'
IsNumericPrefix(s, n) ==
    \E w \in 0 .. n : \E g \in 0 .. 1 :
        /\ w + g <= n
        /\ \A i \in 1 .. w : s[i] \in {9, 32}
        /\ g = 1 => s[w + 1] \in {43, 45}
        /\ \A i \in (w + g + 1) .. n : s[i] \in (48 .. 57) \cup {46}
        /\ Cardinality({i \in (w + g + 1) .. n : s[i] = 46}) <= 1

LongestNumericPrefix(s) ==
    LET n == CHOOSE n \in 0 .. Len(s) :
                 /\ IsNumericPrefix(s, n)
                 /\ \A m \in (n + 1) .. Len(s) : ~IsNumericPrefix(s, m)
    IN  SubSeq(s, 1, n)

IsDigit(x) == x \in 48 .. 57

\* the decimal value of a numeric prefix, 0 when it holds no digit
PrefixValue(p) ==
    LET dots == {i \in 1 .. Len(p) : p[i] = 46}
        frac == {i \in 1 .. Len(p) : IsDigit(p[i]) /\ \E d \in dots : d < i}
    IN  [neg |-> \E i \in 1 .. Len(p) : p[i] = 45,
         mant |-> DigitsValue(SelectSeq(p, IsDigit)),
         scale |-> Cardinality(frac)]

\* x and y denote the same number
SameValue(x, y) ==
    (IF x.neg THEN 0 - x.mant ELSE x.mant) * Pow(10, y.scale)
        = (IF y.neg THEN 0 - y.mant ELSE y.mant) * Pow(10, x.scale)

NumericValue(s) == PrefixValue(LongestNumericPrefix(s))

\* C13: parse_leading_number returns the decimal value of the longest prefix
\* made of optional spaces and tabs, one optional sign, and digits with at most
\* one '.'; it stops at the first other byte (a second '.', 'e', a byte that is
\* not text) and the value is 0 when no digit was consumed.
C13_LeadingNumber ==
    pc = "number" =>
        /\ SameValue(num, NumericValue(a))
        /\ (\A i \in 1 .. Len(LongestNumericPrefix(a)) :
               ~IsDigit(LongestNumericPrefix(a)[i])) => SameValue(num, Zero)

\* "\t+7e"
C13_Witness ==
    /\ pc = "number"
    /\ a = <<9, 43, 55, 101>>
    /\ num = [neg |-> FALSE, mant |-> 7, scale |-> 0]

\* C14: "-0", "+0", "0" and every other record whose numeric prefix has the
\* value zero ("-0.0", text that is not a number) compare pairwise Equal under
\* compare_numeric; with numeric and stable set such records compare Equal, and
\* with the last resort enabled they are ordered by their raw bytes.
C14_SignedZero ==
    (/\ Compared /\ config.numeric /\ config.keys = <<>>
     /\ SameValue(NumericValue(a), Zero) /\ SameValue(NumericValue(b), Zero)) =>
        /\ key_result = "Equal"
        /\ config.stable => ord.ab = "Equal"
        /\ (~config.stable /\ ~config.unique /\ ~config.reverse) => ord.ab = RawOrder(a, b)

\* "-0" against "+0"
C14_Witness ==
    /\ Compared /\ config.numeric /\ config.stable
    /\ a = <<45, 48>> /\ b = <<43, 48>>
    /\ key_result = "Equal" /\ ord.ab = "Equal"

\* C15: compare_fold_case(a, b) is the raw unsigned lexicographic comparison
\* of a and b after mapping the bytes 'a'..'z' to 'A'..'Z' and leaving every
\* other byte as it is: "AZ" against "az" is Equal, while 0xE0 against 0xC0 is
\* Greater.
C15_FoldAsciiOnly ==
    (Compared /\ config.fold_case /\ ~config.numeric /\ config.keys = <<>>) =>
        LET Mapped(x) == [i \in 1 .. Len(x) |->
                             IF x[i] >= 97 /\ x[i] <= 122 THEN x[i] - 32 ELSE x[i]]
        IN  /\ key_result = RawOrder(Mapped(a), Mapped(b))
            /\ (\A i \in 1 .. Len(a) : a[i] \notin 97 .. 122)
                   /\ (\A i \in 1 .. Len(b) : b[i] \notin 97 .. 122)
                => key_result = RawOrder(a, b)

\* 0xE0 against 0xC0
C15_Witness ==
    /\ Compared /\ config.fold_case
    /\ a = <<224>> /\ b = <<192>>
    /\ key_result = "Greater"

(***************************************************************************)
(* Sorting, stated on the input and the result.                            *)
(***************************************************************************)
Count(s, r) == Cardinality({i \in 1 .. Len(s) : s[i] = r})

IsPermutation(s, t) ==
    /\ Len(s) = Len(t)
    /\ \A i \in 1 .. Len(t) : Count(s, t[i]) = Count(t, t[i])

Cmp(x, y) == compare_records(x, y, config, overflow_checks)

\* C16: after sort_records the list is a permutation of the input, and it is
\* ordered: no record is Greater than the one that follows it.
C16_SortedPermutation ==
    pc = "sorted" =>
        /\ IsPermutation(records, input)
        /\ \A i \in 1 .. (Len(records) - 1) : Cmp(records[i], records[i + 1]) # "Greater"

\* ["a", " ", "A"] under the default configuration
C16_Witness ==
    /\ pc = "sorted" /\ config = DefaultConfig
    /\ input = << <<97>>, <<32>>, <<65>> >>
    /\ records = << <<32>>, <<65>>, <<97>> >>

\* C17: when stable or unique is set, the records that compare Equal to one
\* another stand after sort_records in the order they had in the input, also
\* under reverse.
C17_StableTies ==
    (pc = "sorted" /\ (config.stable \/ config.unique)) =>
        \A k \in 1 .. Len(input) :
            LET Tied(x) == Cmp(x, input[k]) = "Equal"
            IN  SelectSeq(records, Tied) = SelectSeq(input, Tied)

\* ["a", " ", "A"] with fold_case, stable and reverse
C17_Witness ==
    /\ pc = "sorted" /\ config.stable /\ config.reverse /\ config.fold_case
    /\ input = << <<97>>, <<32>>, <<65>> >>
    /\ records = << <<97>>, <<65>>, <<32>> >>

\* C18: with unique set, sort_records followed by write_records writes exactly
\* one record of every class of records that compare Equal, the one that comes
\* first in the input; no two records written compare Equal.
C18_UniqueFirstOfClass ==
    (pc = "written" /\ config.unique) =>
        /\ \A i, j \in 1 .. Len(written) : i # j => Cmp(written[i], written[j]) # "Equal"
        /\ \A k \in 1 .. Len(input) :
              \E i \in 1 .. Len(written) : Cmp(input[k], written[i]) = "Equal"
        /\ \A i \in 1 .. Len(written) :
              \E k \in 1 .. Len(input) :
                  /\ written[i] = input[k]
                  /\ \A m \in 1 .. (k - 1) : Cmp(input[m], written[i]) # "Equal"

\* ["a A", "a"] with -k1,1
C18_Witness ==
    /\ pc = "written" /\ config.unique /\ config.keys # <<>> /\ ~config.fold_case
    /\ input = << <<97, 32, 65>>, <<97>> >>
    /\ written = << <<97, 32, 65>> >>

(***************************************************************************)
(* The debug lines, stated on the record and the key.                      *)
(***************************************************************************)
\* the key extract_key returns for the i-th configured key
DebugKey(i) == extract_key(record, config.keys[i], config.field_separator, overflow_checks)

\* the byte offset at which that key begins: the start of the start field plus
\* the start character offset, clamped to the end of the field
DebugKeyStart(i) ==
    LET F == split_fields_with_positions(record, config.field_separator)
        ks == config.keys[i]
        off == IF ks.start_char = None THEN 0 ELSE ks.start_char[1] - 1
    IN  IF F[ks.start_field][1] + off <= F[ks.start_field][2]
        THEN F[ks.start_field][1] + off
        ELSE F[ks.start_field][2]

\* C19: for every record, separator policy and configured key whose extracted
\* key is not empty, the underline debug_line writes has as many leading spaces
\* as the byte offset at which the key of extract_key begins and as many
\* underscores as the key has bytes, so it covers the compared bytes and never
\* reaches past the end of the record.
C19_DebugLockStep ==
    pc = "debugged" =>
        \A i \in 1 .. Len(config.keys) :
            (~DebugKey(i).panic /\ DebugKey(i).key # <<>>) =>
                /\ Len(debug_out.lines) >= i + 1
                /\ debug_out.lines[i + 1].kind = "underline"
                /\ debug_out.lines[i + 1].indent = DebugKeyStart(i)
                /\ debug_out.lines[i + 1].underline = Len(DebugKey(i).key)
                /\ debug_out.lines[i + 1].indent + debug_out.lines[i + 1].underline
                      <= Len(record)

\* C20: debug_line writes the record as the first line and then one line for
\* every configured key (one line when no key is configured); for a key whose
\* start field lies beyond the last field the line is "^ no match for key";
\* no key line is an empty underline.
C20_DebugLines ==
    pc = "debugged" =>
        /\ ~debug_out.panic
        /\ Len(debug_out.lines) = 1 + Max(Len(config.keys), 1)
        /\ debug_out.lines[1] = RecordLine(record)
        /\ \A i \in 1 .. Len(config.keys) :
              config.keys[i].start_field
                  > Len(split_fields_with_positions(record, config.field_separator))
              => debug_out.lines[i + 1] = NoMatchLine
        /\ \A n \in 2 .. Len(debug_out.lines) :
              /\ debug_out.lines[n].kind # "record"
              /\ debug_out.lines[n].kind = "underline" => debug_out.lines[n].underline >= 1

\* C25: every KeySpec that KeySpec::parse returns has start_field >= 1;
\* start_char, end_field and end_char at least 1 when present; end_field not
\* below start_field; end_char not below start_char when end_field equals
\* start_field and both chars are present; and an end_char only with an
\* end_field.
C25_ParsedKeySpecInvariant ==
    (pc = "parsed" /\ parsed # Err) =>
        LET ks == parsed[1]
        IN  /\ ks.start_field >= 1
            /\ ks.start_char # None => ks.start_char[1] >= 1
            /\ ks.end_field # None => ks.end_field[1] >= 1
            /\ ks.end_char # None => ks.end_char[1] >= 1
            /\ ks.end_field # None => ks.end_field[1] >= ks.start_field
            /\ (ks.end_field = Some(ks.start_field)
                   /\ ks.start_char # None /\ ks.end_char # None)
                => ks.end_char[1] >= ks.start_char[1]
            /\ ks.end_char # None => ks.end_field # None

\* "2.2,2.2"
C25_Witness ==
    /\ pc = "parsed"
    /\ text = <<50, 46, 50, 44, 50, 46, 50>>
    /\ parsed = Ok(KeySpec(2, Some(2), Some(2), Some(2)))

(***************************************************************************)
(* Keys, stated on the record and its field spans.                         *)
(***************************************************************************)
FieldSpans == split_fields_with_positions(record, separator)

\* the index of the last field of the key: the end field, or the last field
\* of the record when there is none or it lies beyond the last field
LastFieldOfKey ==
    IF spec.end_field # None /\ spec.end_field[1] <= Len(FieldSpans)
    THEN spec.end_field[1]
    ELSE Len(FieldSpans)

\* the offset-adjusted start of the first field
KeyStart ==
    LET sp == FieldSpans[spec.start_field]
        off == IF spec.start_char = None THEN 0 ELSE spec.start_char[1] - 1
    IN  IF sp[1] + off <= sp[2] THEN sp[1] + off ELSE sp[2]

\* the offset-adjusted end of the last field
KeyEnd ==
    LET sp == FieldSpans[LastFieldOfKey]
    IN  IF spec.end_char = None THEN sp[2]
        ELSE IF sp[1] + spec.end_char[1] <= sp[2] THEN sp[1] + spec.end_char[1]
        ELSE sp[2]

\* C23: every key extract_key returns is a contiguous slice record[s..e] with
\* 0 <= s <= e <= len(record); a key over several fields runs from the
\* offset-adjusted start of its first field to the offset-adjusted end of its
\* last field, separators and whitespace between them included; a key of one
\* field lies inside that field's span.
C23_KeyIsContiguousSlice ==
    pc = "extracted" =>
        /\ ~key.panic
        /\ \E s \in 0 .. Len(record) : \E e \in s .. Len(record) :
              key.key = SubSeq(record, s + 1, e)
        /\ (spec.start_field <= Len(FieldSpans) /\ LastFieldOfKey > spec.start_field)
              => key.key = SubSeq(record, KeyStart + 1, KeyEnd)
        /\ (spec.start_field <= Len(FieldSpans) /\ LastFieldOfKey = spec.start_field)
              => \E s \in FieldSpans[spec.start_field][1] .. FieldSpans[spec.start_field][2] :
                    \E e \in s .. FieldSpans[spec.start_field][2] :
                        key.key = SubSeq(record, s + 1, e)

\* C24: for a record with F fields and a key whose start field exists,
\* extract_key without an end field returns the key it returns with end field
\* F, and with an end field above F the key it returns with end field F and
\* the same end char; it never fails.
C24_EndFieldDefaultAndClamp ==
    (pc = "extracted" /\ spec.start_field <= Len(FieldSpans)) =>
        LET F == Len(FieldSpans)
            atF == extract_key(record, [spec EXCEPT !.end_field = Some(F)],
                               separator, overflow_checks)
        IN  /\ ~key.panic
            /\ spec.end_field = None => (~atF.panic /\ key.key = atF.key)
            /\ (spec.end_field # None /\ spec.end_field[1] > F)
                  => (~atF.panic /\ key.key = atF.key)

\* C27: under every configuration compare_records(b, a) is the reverse of
\* compare_records(a, b), and compare_records(a, a) is Equal.
C27_AntisymmetricReflexive ==
    Compared =>
        /\ compare_records(b, a, config, overflow_checks) = Opposite(ord.ab)
        /\ ord.ab \in {"Less", "Equal", "Greater"}
        /\ compare_records(a, a, config, overflow_checks) = "Equal"

\* "a" against "A " under -f -r -k1,1: the keys tie, the last resort does not
C27_Witness ==
    /\ Compared
    /\ a # b
    /\ config.reverse /\ config.fold_case /\ config.keys # <<>>
    /\ use_last_resort(config)
    /\ key_result = "Equal"
    /\ ord.ab = "Less"
    /\ compare_records(b, a, config, overflow_checks) = "Greater"

\* the input with the records at i and j exchanged
Exchanged(i, j) ==
    [k \in 1 .. Len(input) |-> IF k = i THEN input[j] ELSE IF k = j THEN input[i] ELSE input[k]]

\* C28: with stable and unique both off, the list sort_records leaves depends
\* only on the multiset of the input records and the configuration: the sort
\* has one possible outcome, and exchanging any two records of the input (the
\* exchanges generate every ordering of the same records) leaves it the same.
C28_OrderIndependent ==
    (pc = "sorted" /\ ~config.stable /\ ~config.unique) =>
        /\ sort_records(input, config, overflow_checks) = {records}
        /\ \A i, j \in 1 .. Len(input) :
              i < j => sort_records(Exchanged(i, j), config, overflow_checks) = {records}

\* ["a", "A", " "] under -f -k1,1: "a" and "A" tie on the key, the raw bytes decide
C28_Witness ==
    /\ pc = "sorted" /\ ~config.stable /\ ~config.unique
    /\ config.fold_case /\ ~config.reverse /\ config.keys # <<>>
    /\ input = << <<97>>, <<65>>, <<32>> >>
    /\ records = << <<32>>, <<65>>, <<97>> >>

(***************************************************************************)
(* The -t value, read from its characters.                                 *)
(***************************************************************************)
\* C21: field_separator returns None when -t is absent, the byte itself for a
\* value of one byte, NUL for \0, tab for \t, newline for \n, backslash for
\* \\, and the InvalidDelimiter error for every other value: the empty
\* string, any other two-character escape, any longer value.
C21_FieldSeparator ==
    pc = "separated" =>
        IF args.delimiter = None THEN field_sep = Ok(None)
        ELSE LET s == args.delimiter[1]
             IN  IF Len(s) = 1 /\ s[1] <= 127 THEN field_sep = Ok(Some(s[1]))
                 ELSE IF s = <<92, 48>> THEN field_sep = Ok(Some(0))
                 ELSE IF s = <<92, 116>> THEN field_sep = Ok(Some(9))
                 ELSE IF s = <<92, 110>> THEN field_sep = Ok(Some(10))
                 ELSE IF s = <<92, 92>> THEN field_sep = Ok(Some(92))
                 ELSE field_sep = Err

\* -t '\x'
C21_Witness ==
    /\ pc = "separated"
    /\ args.delimiter = Some(<<92, 120>>)
    /\ field_sep = Err

(***************************************************************************)
(* The arena, stated on the sequence of pushes.                            *)
(***************************************************************************)
RECURSIVE SumOfLengths(_)
SumOfLengths(recs) == IF recs = <<>> THEN 0 ELSE Len(Head(recs)) + SumOfLengths(Tail(recs))

\* C30: after any sequence of pushes on a new Arena bytes_used() is the sum of
\* the lengths of the records pushed, len() is the number of pushes,
\* is_empty() holds iff nothing was pushed, and into_records() returns the
\* records in push order; no step removes a record.
C30_ArenaAccounting ==
    /\ [](/\ bytes_used(arena) = SumOfLengths(pushes)
          /\ len(arena) = Len(pushes)
          /\ is_empty(arena) <=> pushes = <<>>
          /\ pc = "consumed" => taken = Some(pushes))
    /\ [][/\ Len(arena.records') >= Len(arena.records)
          /\ SubSeq(arena.records', 1, Len(arena.records)) = arena.records]_vars

\* "ab", "" and "b" pushed and taken
C30_Witness ==
    /\ pc = "consumed"
    /\ pushes = << <<97, 98>>, <<>>, <<98>> >>
    /\ arena.total_bytes = 3
    /\ taken = Some(<< <<97, 98>>, <<>>, <<98>> >>)

(***************************************************************************)
(* run(), stated on the command line, the files and the streams.           *)
(***************************************************************************)
\* a -k descriptor or the -t value is rejected
BadFlag ==
    \/ field_separator(args.delimiter) = Err
    \/ \E i \in 1 .. Len(args.keys) : KeySpec_parse(args.keys[i]) = Err

\* newline, or NUL with -z
RunDelimiter == IF args.zero_terminated THEN 0 ELSE 10

\* every record followed by one delimiter
RECURSIVE Terminated(_, _)
Terminated(recs, d) ==
    IF recs = <<>> THEN <<>> ELSE Head(recs) \o <<d>> \o Terminated(Tail(recs), d)

IsRead(e) == e.op = "read"

IsOutput(e) == e.op \in {"create", "write"}

\* the bytes run() has written to its output destination
Out ==
    IF args.output = None \/ args.output = Some("-") THEN stdout
    ELSE fs[args.output[1]].bytes

\* C22: when a -k descriptor or the -t value is rejected, run() returns that
\* error and has read no input, written no debug annotation and neither
\* opened nor written the output.
C22_EagerConfigErrors ==
    BadFlag =>
        /\ pc \in {"start", "failed"}
        /\ pc = "failed" => run_result \in {"InvalidKey", "InvalidDelimiter"}
        /\ events = <<>>
        /\ records = <<>> /\ next_file = 1
        /\ stderr = <<>>
        /\ stdout = <<>>
        /\ fs = fs_start

\* --debug -k 0 -o f f -
C22_Witness ==
    /\ pc = "failed"
    /\ run_result = "InvalidKey"
    /\ args.debug /\ args.output = Some("f") /\ args.files = <<"f", "-">>
    /\ fs["f"] = RegularFile(<<97>>)
    /\ stdin = <<0>>

\* C26: when run() has written, the output is every emitted record followed
\* by exactly one record delimiter (newline, NUL with -z), the last one too,
\* with or without unique and whether or not the input ended with a
\* delimiter; an empty input gives an empty output.
C26_TrailingDelimiter ==
    pc = "done" =>
        /\ Out = Terminated(written, RunDelimiter)
        /\ \A i \in 1 .. Len(written) : \A j \in 1 .. Len(written[i]) :
              written[i][j] # RunDelimiter
        /\ written = <<>> <=> records = <<>>
        /\ (\A i \in 1 .. Len(events) : IsRead(events[i]) => events[i].bytes = <<>>)
              => Out = <<>>

\* "a" on stdin, without a newline at its end
C26_Witness ==
    /\ pc = "done"
    /\ args.files = <<>> /\ ~args.zero_terminated /\ args.output = None
    /\ events[1] = Event("read", "-", <<97>>)
    /\ stdout = <<97, 10>>

\* an input file named on the command line cannot be opened or read
InputFails ==
    /\ ~BadFlag
    /\ \E i \in 1 .. Len(args.files) :
          args.files[i] # "-" /\ fs_start[args.files[i]].kind # "file"

Ordered(recs) ==
    \A i \in 1 .. (Len(recs) - 1) :
        compare_records(recs[i], recs[i + 1], config, overflow_checks) # "Greater"

\* the records of the inputs read so far, in the order read
RECURSIVE RecordsRead(_)
RecordsRead(evs) ==
    IF evs = <<>> THEN <<>>
    ELSE (IF IsRead(Head(evs))
          THEN read_all_records(Head(evs).bytes, RunDelimiter).records
          ELSE <<>>) \o RecordsRead(Tail(evs))

\* C29: run() changes the output (creates or truncates the -o file, writes)
\* only when every input has been read to its end and the records are
\* sorted; when an input cannot be opened or read it returns the error and
\* leaves the files and stdout as they were; so an input file named as -o
\* ends up holding its original records, sorted.
C29_OutputTouchedLast ==
    /\ [][(fs' # fs \/ stdout' # stdout) =>
            /\ pc \in {"sorted", "opened"}
            /\ Len(SelectSeq(events, IsRead))
                 = (IF args.files = <<>> THEN 1 ELSE Len(args.files))
            /\ Ordered(records)]_vars
    /\ [](InputFails =>
            /\ pc \in {"start", "configured", "failed"}
            /\ pc = "failed" => run_result = "Io"
            /\ fs = fs_start /\ stdout = <<>>
            /\ SelectSeq(events, IsOutput) = <<>>)
    /\ []((/\ pc = "done"
            /\ args.output # None
            /\ \E i \in 1 .. Len(args.files) : args.output = Some(args.files[i])
            /\ args.output # Some("-")) =>
            /\ \A i \in 1 .. Len(events) :
                  (IsRead(events[i]) /\ events[i].path = args.output[1])
                      => events[i].bytes = fs_start[args.output[1]].bytes
            /\ IsPermutation(records, RecordsRead(events))
            /\ Ordered(records)
            /\ fs[args.output[1]].bytes = Terminated(written, RunDelimiter))

\* -o f f - with "a" in f and a NUL on stdin
C29_Witness ==
    /\ pc = "done"
    /\ args.files = <<"f", "-">> /\ args.output = Some("f")
    /\ ~args.zero_terminated /\ ~args.unique /\ args.keys = <<>>
    /\ fs_start["f"] = RegularFile(<<97>>)
    /\ fs["f"] = RegularFile(<<0, 10, 97, 10>>)

====
